---- MODULE Spec2Model ----
(***************************************************************************)
(* A model of tsrf's workspace dependency synchronization engine: the      *)
(* registry (state.ts, workspaces.ts), the manifest and config rewriting   *)
(* (package.ts, tsconfig.ts), and the filesystem event router (watch.ts).  *)
(*                                                                         *)
(* JSON documents are modelled structurally.  An optional value is a       *)
(* sequence of length 0 (undefined / no file) or 1.  A JSON object and a   *)
(* JavaScript Map are sequences of <<key, value>> pairs in insertion       *)
(* order, which is the order Object.keys / Map iteration observe.          *)
(***************************************************************************)
EXTENDS Naturals, Sequences, FiniteSets, TLC

VARIABLES
    \* --- State (state.ts)
    workspaceRequirements,      \* Map<WorkspacePath, number>, read with `|| 0`
    watching,                   \* Ref<boolean>
    workspaceNames,             \* Map<WorkspacePath, WorkspaceName>
    workspaceDependencies,      \* Map<WorkspaceName, WorkspaceName[]>
    missingBuildInfos,          \* Set<BuildInfoPath>
    commandsReported,           \* Set<string>
    workspacePackagesWatchlist, \* Set<PackagePath>
    buildInfoWatchlist,         \* Set<BuildInfoPath>
    \* --- The files under the project root
    rootPackage,                \* package.json
    packages,                   \* <workspace>/package.json
    tsconfigs,                  \* <workspace>/tsconfig.json
    rootTSConfig,               \* the root tsconfig
    buildInfos,                 \* <workspace>/.ts/tsconfig.tsbuildinfo
    \* --- The process
    pc,                         \* "init" before watch() ran, "running", "exited"
    events,                     \* watcher events not yet dispatched
    edits,                      \* number of external file changes so far
    last,                       \* what the last step did (history)
    \* --- Input and result of one call of a document operation
    call

vars == <<workspaceRequirements, watching, workspaceNames, workspaceDependencies,
          missingBuildInfos, commandsReported, workspacePackagesWatchlist,
          buildInfoWatchlist, rootPackage, packages, tsconfigs, rootTSConfig,
          buildInfos, pc, events, edits, last, call>>

-----------------------------------------------------------------------------
(* Optional values, sets and sequences *)

None == <<>>
Some(v) == <<v>>
IsSome(o) == Len(o) = 1
Val(o) == o[1]

Range(seq) == {seq[i] : i \in 1..Len(seq)}

Includes(seq, item) == \E i \in 1..Len(seq) : seq[i] = item

RECURSIVE Filter(_, _)
\* Array.prototype.filter with the test given as the set of passing items
Filter(seq, keep) ==
    IF seq = <<>> THEN <<>>
    ELSE (IF Head(seq) \in keep THEN <<Head(seq)>> ELSE <<>>) \o Filter(Tail(seq), keep)

NoDuplicates(seq) == \A i, j \in 1..Len(seq) : seq[i] = seq[j] => i = j

\* All duplicate-free sequences over the set S of length at most n
SeqsUpTo(S, n) ==
    {q \in UNION {[1..k -> S] : k \in 0..n} : NoDuplicates(q)}

-----------------------------------------------------------------------------
(* JavaScript Map and plain object, as insertion-ordered key/value pairs *)

MapKeys(m) == [i \in 1..Len(m) |-> m[i][1]]
MapValues(m) == [i \in 1..Len(m) |-> m[i][2]]
MapHas(m, k) == \E i \in 1..Len(m) : m[i][1] = k
MapGet(m, k) == m[CHOOSE i \in 1..Len(m) : m[i][1] = k][2]

\* set: an existing key keeps its position, a new key goes last
MapSet(m, k, v) ==
    IF MapHas(m, k)
    THEN [i \in 1..Len(m) |-> IF m[i][1] = k THEN <<k, v>> ELSE m[i]]
    ELSE Append(m, <<k, v>>)

RECURSIVE MapDelete(_, _)
MapDelete(m, k) ==
    IF m = <<>> THEN <<>>
    ELSE IF Head(m)[1] = k THEN MapDelete(Tail(m), k)
    ELSE <<Head(m)>> \o MapDelete(Tail(m), k)

\* deepEqualJSON on two objects whose values are compared with `=`:
\* same number of keys, every key of the first in the second with an equal value
ObjectsEqual(o1, o2) ==
    /\ Len(o1) = Len(o2)
    /\ \A i \in 1..Len(o1) : MapHas(o2, o1[i][1]) /\ MapGet(o2, o1[i][1]) = o1[i][2]

-----------------------------------------------------------------------------
(* The modelled project: workspace directories and package names *)

\* Directories the root manifest's `workspaces` globs can match
Paths == {"packages/a", "packages/b", "packages/c"}
Basename == [p \in Paths |->
    CASE p = "packages/a" -> "a" [] p = "packages/b" -> "b" [] OTHER -> "c"]

\* Package names, in the ascending order Array.prototype.sort gives them
KeyOrder == <<"a", "b", "n", "x">>
\* names workspaces take ("x" stands for a package that is no workspace)
Names == {"a", "b", "n"}
Keys == Range(KeyOrder)
Rank(k) == CHOOSE i \in 1..Len(KeyOrder) : KeyOrder[i] = k

-----------------------------------------------------------------------------
(* workspaces.ts: the registry *)

Requirement_TSConfig == 1
Requirement_Package == 2
Requirement_PackageName == 4
RequirementBits == {Requirement_TSConfig, Requirement_Package, Requirement_PackageName}

\* bit b (a power of two) of the mask n
HasBit(n, b) == (n \div b) % 2 = 1
RECURSIVE SumBits(_)
SumBits(S) == IF S = {} THEN 0 ELSE LET b == CHOOSE x \in S : TRUE IN b + SumBits(S \ {b})
\* current | requirement
BitOr(n, m) == SumBits({b \in RequirementBits : HasBit(n, b) \/ HasBit(m, b)})
\* current & ~requirement
BitAndNot(n, m) == SumBits({b \in RequirementBits : HasBit(n, b) /\ ~HasBit(m, b)})
\* current & requirement
BitAnd(n, m) == SumBits({b \in RequirementBits : HasBit(n, b) /\ HasBit(m, b)})

allRequirements ==
    BitOr(Requirement_Package, BitOr(Requirement_PackageName, Requirement_TSConfig))

addRequirement(req, path, requirement) ==
    [req EXCEPT ![path] = BitOr(req[path], requirement)]

\* every bit of the path cleared
removeRequirement_ClearsAll(req, path, requirement) == [req EXCEPT ![path] = 0]

removeRequirement(req, path, requirement) ==
    [req EXCEPT ![path] = BitAndNot(req[path], requirement)]

hasRequirement(req, path, requirement) ==
    BitAnd(req[path], requirement) = requirement

hasAllRequirements(req, path) ==
    BitAnd(req[path], allRequirements) = allRequirements

matchingWorkspaces(req, workspacePaths) ==
    {p \in workspacePaths : hasAllRequirements(req, p)}

\* getWorkspaceName finds a name (otherwise it ends the process)
HasWorkspaceName(names, workspacePath) == MapHas(names, workspacePath)
getWorkspaceName(names, workspacePath) == MapGet(names, workspacePath)

\* getWorkspacePath finds a path (otherwise it ends the process):
\* Array.from(State.workspaceNames).find, the first entry with the name
HasWorkspacePath(names, workspaceName) ==
    \E i \in 1..Len(names) : names[i][2] = workspaceName
getWorkspacePath(names, workspaceName) ==
    LET i == CHOOSE k \in 1..Len(names) :
                 /\ names[k][2] = workspaceName
                 /\ \A j \in 1..(k - 1) : names[j][2] # workspaceName
    IN  names[i][1]

HasWorkspaceDependencies(deps, workspaceName) == MapHas(deps, workspaceName)
getWorkspaceDependencies(deps, workspaceName) == MapGet(deps, workspaceName)

-----------------------------------------------------------------------------
(* Paths of the files of a workspace (package.ts, tsconfig.ts, buildinfo.ts) *)

getWorkspacePackagePath(workspacePath) == workspacePath \o "/package.json"
getBuildInfoPath(workspacePath) == workspacePath \o "/.ts/tsconfig.tsbuildinfo"
\* dirname(packagePath)
packagePathToWorkspacePath(packagePath) ==
    CHOOSE p \in Paths : getWorkspacePackagePath(p) = packagePath
\* resolve(dirname(buildInfoPath), "..")
buildInfoPathToWorkspacePath(buildInfoPath) ==
    CHOOSE p \in Paths : getBuildInfoPath(p) = buildInfoPath

getWatchedWorkspacePaths(pkgWatchlist) ==
    {packagePathToWorkspacePath(pp) : pp \in pkgWatchlist}

\* relative(workspacePath || State.root, dependencyPath); the workspaces are
\* sibling directories, so from a workspace the way leads through ".."
getReferencePath(dependencyPath, workspacePath) ==
    IF workspacePath = None THEN dependencyPath
    ELSE IF Val(workspacePath) = dependencyPath THEN ""
    ELSE "../" \o Basename[dependencyPath]

\* relative(State.root, resolve(workspacePath, referencePath))
workspacePathFromReferencePath(referencePath, workspacePath) ==
    IF \E p \in Paths : getReferencePath(p, Some(workspacePath)) = referencePath
    THEN CHOOSE p \in Paths : getReferencePath(p, Some(workspacePath)) = referencePath
    ELSE workspacePath \o "/" \o referencePath

-----------------------------------------------------------------------------
(* utils.ts *)

\* every item of `next` taken for missing
getMissingItems_All(actual, next) == next
\* next.filter((item) => !actual.includes(item))
getMissingItems(actual, next) == Filter(next, Range(next) \ Range(actual))
\* actual.filter((item) => !next.includes(item))
getRedundantItems(actual, next) == Filter(actual, Range(actual) \ Range(next))

\* every item of `next` taken for missing
getSetMissingItems_All(actual, next) == next

\* getSetMissingItems: the items of `next` that `actual` does not have
getSetMissingItems(actual, next) == {item \in next : item \notin actual}

\* getSetRedundantItems: the items of `actual` that `next` does not have
getSetRedundantItems(actual, next) == {item \in actual : item \notin next}

RECURSIVE SortKeys(_)
\* Object.keys(obj).sort() for a set of keys
SortKeys(S) ==
    IF S = {} THEN <<>>
    ELSE LET k == CHOOSE x \in S : \A y \in S : Rank(x) <= Rank(y)
         IN  <<k>> \o SortKeys(S \ {k})

\* the object as it was, its keys in insertion order
sortObject_Unsorted(obj) == obj

\* a new object filled in the order of the sorted keys
sortObject(obj) ==
    LET ks == SortKeys(Range(MapKeys(obj)))
    IN  [i \in 1..Len(ks) |-> <<ks[i], MapGet(obj, ks[i])>>]

-----------------------------------------------------------------------------
(* package.ts: the manifest, [name, dependencies, devDependencies];         *)
(* name "" is a missing (or empty) name, a dependency field is optional     *)

\* a value that JavaScript takes as true in a condition: a version string is
\* falsy only when empty, a missing key reads undefined
Truthy(version) == version # ""

RECURSIVE SetAll(_, _, _)
\* missing.reduce((deps, name) => { deps[name] = "*"; return deps }, obj)
SetAll(obj, names, v) ==
    IF names = <<>> THEN obj
    ELSE SetAll(MapSet(obj, Head(names), v), Tail(names), v)

RECURSIVE DeleteAll(_, _)
DeleteAll(obj, names) ==
    IF names = <<>> THEN obj
    ELSE DeleteAll(MapDelete(obj, Head(names)), Tail(names))

\* Object.keys(dependencies || {}).filter((name) => names.includes(name))
packageDependenciesToWorkspaceNames(names, dependencies) ==
    IF IsSome(dependencies)
    THEN Filter(MapKeys(Val(dependencies)), Range(MapValues(names)))
    ELSE <<>>

\* the keys of devDependencies left out
getPackageDependencies_NoDev(names, pkg) ==
    packageDependenciesToWorkspaceNames(names, pkg.dependencies)

getPackageDependencies(names, pkg) ==
    packageDependenciesToWorkspaceNames(names, pkg.dependencies)
        \o packageDependenciesToWorkspaceNames(names, pkg.devDependencies)

\* The mutator of updateChangedDependencies; it returns nothing, so that
\* mutatePackage always goes on to write
updateChangedDependencies(pkg, missing, redundant) ==
    LET d0 == IF IsSome(pkg.dependencies) THEN Val(pkg.dependencies) ELSE <<>>
        d1 == SetAll(d0, missing, "*")
        d2 == DeleteAll(d1, redundant)
        v2 == IF IsSome(pkg.devDependencies)
              THEN Some(DeleteAll(Val(pkg.devDependencies), redundant))
              ELSE None
    IN  [pkg EXCEPT !.dependencies = Some(sortObject(d2)),
                    !.devDependencies = IF IsSome(v2) THEN Some(sortObject(Val(v2)))
                                        ELSE None]

\* Package.addMissingDependencies, the mutator watch.ts passes for the
\* missing dependencies of a build info: it returns nothing, so that
\* mutatePackage always goes on to write: [pkg, ret]
addMissingDependencies(pkg, missing) ==
    LET d0 == IF IsSome(pkg.dependencies) THEN Val(pkg.dependencies) ELSE <<>>
    IN  [pkg |-> [pkg EXCEPT !.dependencies = Some(sortObject(SetAll(d0, missing, "*")))],
         ret |-> "void"]

\* The mutator of renameWorkspaceInPackageDependencies (workspaces.ts)
renameWorkspaceInPackageDependencies(pkg, prevName, newName) ==
    LET inDev == /\ IsSome(pkg.devDependencies)
                 /\ MapHas(Val(pkg.devDependencies), prevName)
                 /\ Truthy(MapGet(Val(pkg.devDependencies), prevName))
        p1 == IF IsSome(pkg.dependencies) /\ ~inDev
              THEN [pkg EXCEPT !.dependencies =
                       Some(sortObject(MapSet(MapDelete(Val(pkg.dependencies), prevName),
                                              newName, "*")))]
              ELSE pkg
    IN  IF inDev
        THEN [p1 EXCEPT !.devDependencies =
                 Some(sortObject(MapSet(MapDelete(Val(pkg.devDependencies), prevName),
                                        newName, "*")))]
        ELSE p1

\* mutatePackage: whether the file is written after the mutator returned
\* `result` ("void" for no value, "false" for false)
SkipWrite(results) == \A i \in 1..Len(results) : results[i] = "false"

-----------------------------------------------------------------------------
(* tsconfig.ts: the config document,                                        *)
(*   [compilerOptions : optional [settings, paths : optional aliases],      *)
(*    references : optional list of reference paths]                        *)
(* `settings` holds the compiler options other than `paths`.                *)

defaultTSConfigCompilerOptions ==
    << <<"composite", "true">>, <<"outDir", ".ts">>,
       <<"tsBuildInfoFile", ".ts/tsconfig.tsbuildinfo">>, <<"noEmit", "false">> >>

\* every default is defined, so each option has to be identical to its default
isCompilerOptionsSatisfactory(options, defaultOptions) ==
    /\ IsSome(options)
    /\ \A i \in 1..Len(defaultOptions) :
          /\ MapHas(Val(options).settings, defaultOptions[i][1])
          /\ MapGet(Val(options).settings, defaultOptions[i][1]) = defaultOptions[i][2]

RECURSIVE ObjectAssign(_, _)
ObjectAssign(target, source) ==
    IF source = <<>> THEN target
    ELSE ObjectAssign(MapSet(target, Head(source)[1], Head(source)[2]), Tail(source))

\* the options are assigned and the write is never skipped
mutateConfigureWorkspaceTSConfig_NoSkip(tsConfig) ==
    [cfg |-> tsConfig, ret |-> "void"]

\* [cfg, ret]: ret is "false" when the options were satisfactory already
mutateConfigureWorkspaceTSConfig(tsConfig) ==
    IF isCompilerOptionsSatisfactory(tsConfig.compilerOptions,
                                     defaultTSConfigCompilerOptions)
    THEN [cfg |-> tsConfig, ret |-> "false"]
    ELSE LET co == IF IsSome(tsConfig.compilerOptions)
                   THEN Val(tsConfig.compilerOptions)
                   ELSE [settings |-> <<>>, paths |-> None]
         IN  [cfg |-> [tsConfig EXCEPT !.compilerOptions =
                          Some([co EXCEPT !.settings =
                              ObjectAssign(co.settings, defaultTSConfigCompilerOptions)])],
              ret |-> "void"]

aliasFromWorkspaceName(workspaceName) == workspaceName
referencePathToAliasResolve(referencePath) == referencePath \o "/"
referencePathToAliashResolveGlob(referencePath) == referencePath \o "/*"
pathAliasToGlob(pathAlias) == pathAlias \o "/*"

\* Object.entries(aliases).find(...)?.[0]: the first alias that resolves to
\* the directory of the reference, if any
findRedundantAliases(aliases, referencePath) ==
    LET hit(i) == Includes(aliases[i][2], referencePathToAliasResolve(referencePath))
    IN  IF \E i \in 1..Len(aliases) : hit(i)
        THEN Some(aliases[CHOOSE i \in 1..Len(aliases) :
                              hit(i) /\ \A j \in 1..(i - 1) : ~hit(j)][1])
        ELSE None

\* dependencies.map((name) => ({ path: getReferencePath(getWorkspacePath(name), ws) }))
referencesFromWorkspaceNames(names, workspacePath, dependencies) ==
    [i \in 1..Len(dependencies) |->
        getReferencePath(getWorkspacePath(names, dependencies[i]), Some(workspacePath))]

\* Array.from(workspacePaths).map((p) => ({ path: getReferencePath(p) })), the
\* set being iterated in the order `order`
referencesFromWorkspacePaths(order) ==
    [i \in 1..Len(order) |-> getReferencePath(order[i], None)]

getRedundantReferences(actual, next) == Filter(actual, Range(actual) \ Range(next))
getMissingReferences(actual, next) == Filter(next, Range(next) \ Range(actual))

\* tsConfig.compilerOptions = tsConfig.compilerOptions || {} and the same for paths
EnsurePaths(tsConfig) ==
    LET co == IF IsSome(tsConfig.compilerOptions)
              THEN Val(tsConfig.compilerOptions)
              ELSE [settings |-> <<>>, paths |-> None]
    IN  [tsConfig EXCEPT !.compilerOptions =
            Some([co EXCEPT !.paths = IF IsSome(co.paths) THEN co.paths ELSE Some(<<>>)])]

AliasesOf(tsConfig) ==
    IF IsSome(tsConfig.compilerOptions) /\ IsSome(Val(tsConfig.compilerOptions).paths)
    THEN Val(Val(tsConfig.compilerOptions).paths)
    ELSE <<>>

WithAliases(tsConfig, aliases) ==
    [tsConfig EXCEPT !.compilerOptions =
        Some([Val(tsConfig.compilerOptions) EXCEPT !.paths = Some(aliases)])]

RECURSIVE RemoveAliases(_, _)
RemoveAliases(aliases, redundantRefs) ==
    IF redundantRefs = <<>> THEN aliases
    ELSE LET pathAlias == findRedundantAliases(aliases, Head(redundantRefs))
         IN  RemoveAliases(
                 IF IsSome(pathAlias)
                 THEN MapDelete(MapDelete(aliases, Val(pathAlias)),
                                pathAliasToGlob(Val(pathAlias)))
                 ELSE aliases,
                 Tail(redundantRefs))

\* the alias tables are left as they were
mutateRemoveRedundantAliases_Keep(tsConfig, redundantRefs) == EnsurePaths(tsConfig)

mutateRemoveRedundantAliases(tsConfig, redundantRefs) ==
    LET c == EnsurePaths(tsConfig)
    IN  WithAliases(c, RemoveAliases(AliasesOf(c), redundantRefs))

RECURSIVE AddAliases(_, _, _, _)
AddAliases(names, aliases, missingRefs, workspacePath) ==
    IF missingRefs = <<>> THEN aliases
    ELSE LET referencePath == Head(missingRefs)
             workspaceName == getWorkspaceName(
                 names, workspacePathFromReferencePath(referencePath, workspacePath))
             pathAlias == aliasFromWorkspaceName(workspaceName)
         IN  AddAliases(
                 names,
                 MapSet(MapSet(aliases, pathAlias,
                               <<referencePathToAliasResolve(referencePath)>>),
                        pathAliasToGlob(pathAlias),
                        <<referencePathToAliashResolveGlob(referencePath)>>),
                 Tail(missingRefs), workspacePath)

mutateAddMissingAliases(names, tsConfig, missingRefs, workspacePath) ==
    LET c == EnsurePaths(tsConfig)
    IN  WithAliases(c, AddAliases(names, AliasesOf(c), missingRefs, workspacePath))

\* two documents never compare equal
deepEqualJSON_Never(c1, c2) == FALSE

\* Utils.deepEqualJSON on two config documents: arrays position by position,
\* objects key by key whatever the order of the keys
deepEqualJSON(c1, c2) ==
    /\ c1.references = c2.references
    /\ IsSome(c1.compilerOptions) = IsSome(c2.compilerOptions)
    /\ IsSome(c1.compilerOptions) =>
          LET o1 == Val(c1.compilerOptions)
              o2 == Val(c2.compilerOptions)
          IN  /\ ObjectsEqual(o1.settings, o2.settings)
              /\ IsSome(o1.paths) = IsSome(o2.paths)
              /\ IsSome(o1.paths) => ObjectsEqual(Val(o1.paths), Val(o2.paths))

\* [cfg, ret, exit]: exit when a name lookup ends the process
mutateUpdateReferences(names, tsConfig, references, workspacePath) ==
    LET prevTSConfig == tsConfig
        tsConfigReferences ==
            IF IsSome(tsConfig.references) THEN Val(tsConfig.references) ELSE <<>>
        c1 == [tsConfig EXCEPT !.references = Some(references)]
        redundantRefs == getRedundantReferences(tsConfigReferences, references)
        missingRefs == getMissingReferences(tsConfigReferences, references)
        c2 == IF Len(redundantRefs) > 0
              THEN mutateRemoveRedundantAliases(c1, redundantRefs) ELSE c1
        namesFound == \A i \in 1..Len(missingRefs) :
            HasWorkspaceName(names,
                workspacePathFromReferencePath(missingRefs[i], workspacePath))
        c3 == IF Len(missingRefs) > 0
              THEN mutateAddMissingAliases(names, c2, missingRefs, workspacePath)
              ELSE c2
    IN  IF ~HasWorkspaceName(names, workspacePath) \/ ~namesFound
        THEN [cfg |-> tsConfig, ret |-> "void", exit |-> TRUE]
        ELSE [cfg |-> c3,
              ret |-> IF deepEqualJSON(prevTSConfig, c3) THEN "false" ELSE "void",
              exit |-> FALSE]

\* The mutator of updateReferences, and whether mutateTSConfig writes after it:
\* [cfg, write, exit]
updateReferences(names, tsConfig, workspacePath, deps) ==
    IF \E i \in 1..Len(deps) : ~HasWorkspacePath(names, deps[i])
    THEN [cfg |-> tsConfig, write |-> FALSE, exit |-> TRUE]
    ELSE LET references == referencesFromWorkspaceNames(names, workspacePath, deps)
             r1 == mutateConfigureWorkspaceTSConfig(tsConfig)
             r2 == mutateUpdateReferences(names, r1.cfg, references, workspacePath)
         IN  [cfg |-> r2.cfg,
              write |-> ~r2.exit /\ ~SkipWrite(<<r1.ret, r2.ret>>),
              exit |-> r2.exit]

\* The mutator of refreshTSConfigReferencesWorkspaceRename: [cfg, write, exit]
refreshTSConfigReferencesWorkspaceRename(names, tsConfig, workspacePath) ==
    LET r1 == mutateConfigureWorkspaceTSConfig(tsConfig)
        r2 == IF IsSome(r1.cfg.references)
              THEN mutateUpdateReferences(names, r1.cfg, Val(r1.cfg.references),
                                          workspacePath)
              ELSE [cfg |-> r1.cfg, ret |-> "false", exit |-> FALSE]
    IN  [cfg |-> r2.cfg,
         write |-> ~r2.exit /\ ~SkipWrite(<<r1.ret, r2.ret>>),
         exit |-> r2.exit]

-----------------------------------------------------------------------------
(* The state after construction (state.ts): everything empty, not watching *)

engineVars == <<workspaceRequirements, watching, workspaceNames,
                workspaceDependencies, missingBuildInfos, commandsReported,
                workspacePackagesWatchlist, buildInfoWatchlist>>
fileVars == <<rootPackage, packages, tsconfigs, rootTSConfig, buildInfos>>
processVars == <<pc, events, edits, last>>

StateInit ==
    /\ workspaceRequirements = [p \in Paths |-> 0]
    /\ watching = FALSE
    /\ workspaceNames = <<>>
    /\ workspaceDependencies = <<>>
    /\ missingBuildInfos = {}
    /\ commandsReported = {}
    /\ workspacePackagesWatchlist = {}
    /\ buildInfoWatchlist = {}

\* No project on disk and no process: the setting of the document operations
NoProject ==
    /\ rootPackage = None
    /\ packages = [p \in Paths |-> None]
    /\ tsconfigs = [p \in Paths |-> None]
    /\ rootTSConfig = None
    /\ buildInfos = [p \in Paths |-> None]
    /\ pc = "init"
    /\ events = <<>>
    /\ edits = 0
    /\ last = [op |-> "none"]

-----------------------------------------------------------------------------
(* Manifest dependency sync on its own: one manifest on disk, one call of   *)
(* Package.updateChangedDependencies through mutatePackage                  *)

MaxDepKeys == 2
MaxDevKeys == 1
MaxChanged == 2
Versions == {"*", "^1"}

\* objects with at most n keys of Keys, in any key order
Objects(n) ==
    {o \in UNION {[1..k -> Keys \X Versions] : k \in 0..n} : NoDuplicates(MapKeys(o))}

Manifests ==
    [name : {"a"},
     dependencies : {None} \cup {Some(o) : o \in Objects(MaxDepKeys)},
     devDependencies : {None} \cup {Some(o) : o \in Objects(MaxDevKeys)}]

PkgInit ==
    /\ StateInit
    /\ NoProject
    /\ \E pkg \in Manifests, missing \in SeqsUpTo(Names, MaxChanged),
          redundant \in SeqsUpTo(Names, MaxChanged) :
          \* missing = next - actual and redundant = actual - next never meet
          /\ Range(missing) \cap Range(redundant) = {}
          /\ call = [op |-> "updateChangedDependencies", before |-> pkg,
                     missing |-> missing, redundant |-> redundant,
                     disk |-> pkg, writes |-> 0, done |-> FALSE]

\* mutatePackage(path, mutator): read, mutate, write unless the mutator
\* returned false
CallUpdateChangedDependencies ==
    /\ call.op = "updateChangedDependencies"
    /\ ~call.done
    /\ LET pkg == updateChangedDependencies(call.disk, call.missing, call.redundant)
           skipWrite == SkipWrite(<<"void">>)
       IN  call' = [call EXCEPT !.disk = IF skipWrite THEN @ ELSE pkg,
                                !.writes = IF skipWrite THEN @ ELSE @ + 1,
                                !.done = TRUE]
    /\ UNCHANGED <<engineVars, fileVars, processVars>>

PkgNext == CallUpdateChangedDependencies

SpecPkg == PkgInit /\ [][PkgNext]_vars

DepsOf(pkg) == IF IsSome(pkg.dependencies) THEN Val(pkg.dependencies) ELSE <<>>
DevDepsOf(pkg) == IF IsSome(pkg.devDependencies) THEN Val(pkg.devDependencies) ELSE <<>>
KeySet(obj) == Range(MapKeys(obj))
KeysAscending(obj) == \A i, j \in 1..Len(obj) : i < j => Rank(obj[i][1]) < Rank(obj[j][1])

\* C7: after manifest dependency sync every missing name is a key of
\* `dependencies` with version "*", no redundant name is a key of either
\* dependency field, every other key keeps its value (and the manifest its
\* name), and the keys of both fields are in ascending order.
C7_ManifestSync ==
    (call.op = "updateChangedDependencies" /\ call.done) =>
        LET old == call.before
            new == call.disk
            changed == Range(call.missing) \cup Range(call.redundant)
        IN  /\ \A m \in Range(call.missing) :
                  MapHas(DepsOf(new), m) /\ MapGet(DepsOf(new), m) = "*"
            /\ \A r \in Range(call.redundant) :
                  ~MapHas(DepsOf(new), r) /\ ~MapHas(DevDepsOf(new), r)
            /\ new.name = old.name
            /\ KeySet(DepsOf(new)) \ changed = KeySet(DepsOf(old)) \ changed
            /\ KeySet(DevDepsOf(new)) = KeySet(DevDepsOf(old)) \ Range(call.redundant)
            /\ IsSome(new.devDependencies) = IsSome(old.devDependencies)
            /\ \A k \in KeySet(DepsOf(old)) \ changed :
                  MapGet(DepsOf(new), k) = MapGet(DepsOf(old), k)
            /\ \A k \in KeySet(DevDepsOf(new)) :
                  MapGet(DevDepsOf(new), k) = MapGet(DevDepsOf(old), k)
            /\ KeysAscending(DepsOf(new))
            /\ KeysAscending(DevDepsOf(new))

\* A sync that had names to add, names to delete from both fields, other
\* keys to keep and keys to put in order
C7_Witness ==
    /\ call.op = "updateChangedDependencies" /\ call.done
    /\ call.missing # <<>>
    /\ \E r \in Range(call.redundant) :
          MapHas(DepsOf(call.before), r) /\ MapHas(DevDepsOf(call.before), r)
    /\ KeySet(DepsOf(call.before)) \ (Range(call.missing) \cup Range(call.redundant)) # {}
    /\ ~KeysAscending(DepsOf(call.before))

\* C8 (as claimed): the sync writes the manifest only if the mutation changed
\* the document; with nothing missing, nothing redundant and the keys in
\* order the file is not written.
C8_WriteOnlyIfChanged ==
    (call.op = "updateChangedDependencies" /\ call.done) =>
        /\ call.writes > 0 => call.disk # call.before
        /\ (/\ call.missing = <<>> /\ call.redundant = <<>>
            /\ KeysAscending(DepsOf(call.before))
            /\ KeysAscending(DevDepsOf(call.before))) => call.writes = 0

-----------------------------------------------------------------------------
(* Reference/alias sync on its own: one workspace config on disk, a fixed   *)
(* registry, and two calls of TSConfig.updateReferences with one target     *)

MaxAliases == 2
MaxReferences == 2
MaxTarget == 2

TsWorkspace == "packages/a"
OtherPaths == Paths \ {TsWorkspace}

\* Registries: the workspace is "a", every other directory has a name (two
\* may share one), entered in either order
Registries ==
    {<< <<TsWorkspace, "a">> >> \o [i \in 1..Len(o) |-> <<o[i], f[o[i]]>>] :
        o \in {q \in SeqsUpTo(OtherPaths, Cardinality(OtherPaths)) :
                  Len(q) = Cardinality(OtherPaths)},
        f \in [OtherPaths -> Names]}

\* Alias tables as the engine writes them: for each aliased directory an exact
\* alias and, right after it, its wildcard alias; the key is any name (the
\* directory may have been renamed since)
RECURSIVE AliasTable(_, _)
AliasTable(keys, dirs) ==
    IF keys = <<>> THEN <<>>
    ELSE LET ref == getReferencePath(Head(dirs), Some(TsWorkspace))
         IN  << <<Head(keys), <<referencePathToAliasResolve(ref)>> >>,
                <<pathAliasToGlob(Head(keys)),
                  <<referencePathToAliashResolveGlob(ref)>> >> >>
             \o AliasTable(Tail(keys), Tail(dirs))

AliasTables ==
    UNION {{AliasTable(ks, ds) :
               ds \in {d \in SeqsUpTo(OtherPaths, MaxAliases) : Len(d) = Len(ks)}} :
           ks \in SeqsUpTo(Names, MaxAliases)}

SettingsOnDisk ==
    {<<>>, defaultTSConfigCompilerOptions,
     MapSet(defaultTSConfigCompilerOptions, "noEmit", "true")}

\* reference paths a config can hold: the sibling workspaces and a directory
\* that is no workspace
ReferencePaths == {getReferencePath(p, Some(TsWorkspace)) : p \in OtherPaths} \cup {"../x"}

TSConfigs ==
    [compilerOptions :
        {None} \cup {Some(co) : co \in [settings : SettingsOnDisk,
                                        paths : {None} \cup {Some(t) : t \in AliasTables}]},
     references : {None} \cup {Some(r) : r \in SeqsUpTo(ReferencePaths, MaxReferences)}]

TsInit ==
    /\ StateInit
    /\ NoProject
    /\ \E names \in Registries, cfg \in {None} \cup {Some(c) : c \in TSConfigs},
          deps \in SeqsUpTo(Names \ {"a"}, MaxTarget) :
          \* the target is what the build info decoder returns: names of
          \* registered workspaces other than the workspace itself
          /\ \A i \in 1..Len(deps) : HasWorkspacePath(names, deps[i])
          /\ call = [op |-> "updateReferences", names |-> names,
                     before |-> cfg, deps |-> deps, disk |-> cfg,
                     wrote |-> <<>>, exited |-> FALSE]

\* mutateTSConfig(path, mutator) with the mutator of updateReferences: read
\* (no file and no default ends the process), mutate, write unless every
\* result is false
CallUpdateReferences ==
    /\ call.op = "updateReferences"
    /\ ~call.exited
    /\ Len(call.wrote) < 2
    /\ IF call.disk = None
       THEN call' = [call EXCEPT !.exited = TRUE]
       ELSE LET r == updateReferences(call.names, Val(call.disk), TsWorkspace, call.deps)
            IN  call' = [call EXCEPT !.disk = IF r.write THEN Some(r.cfg) ELSE @,
                                     !.wrote = IF r.exit THEN @ ELSE Append(@, r.write),
                                     !.exited = r.exit]
    /\ UNCHANGED <<engineVars, fileVars, processVars>>

TsNext == CallUpdateReferences

SpecTS == TsInit /\ [][TsNext]_vars

\* A run of calls of TSConfig.updateReferences for one workspace, each with a
\* target of its own, on a config that starts without references and
\* without aliases; the registry stays as it is
MaxSequence == 3

\* the configs without references and aliases: nothing but what a user or
\* the engine's configuring left
BareTSConfigs ==
    {cfg \in TSConfigs :
        /\ cfg.references \in {None, Some(<<>>)}
        /\ AliasesOf(cfg) = <<>>}

AliasInit ==
    /\ StateInit
    /\ NoProject
    /\ \E names \in Registries, cfg \in BareTSConfigs :
          call = [op |-> "updateReferencesSequence", names |-> names,
                  disk |-> Some(cfg), deps |-> <<>>, prev |-> <<>>,
                  calls |-> 0, exited |-> FALSE]

\* the next call: the target is what the build info decoder returns, names
\* of registered workspaces other than the workspace itself
CallUpdateReferencesTarget ==
    /\ call.op = "updateReferencesSequence"
    /\ ~call.exited
    /\ call.calls < MaxSequence
    /\ \E deps \in SeqsUpTo(Names \ {"a"}, MaxTarget) :
          /\ \A i \in 1..Len(deps) : HasWorkspacePath(call.names, deps[i])
          /\ LET r == updateReferences(call.names, Val(call.disk), TsWorkspace, deps)
             IN  call' = [call EXCEPT !.disk = IF r.write THEN Some(r.cfg) ELSE @,
                                      !.prev = call.deps,
                                      !.deps = deps,
                                      !.calls = @ + 1,
                                      !.exited = r.exit]
    /\ UNCHANGED <<engineVars, fileVars, processVars>>

AliasNext == CallUpdateReferencesTarget

SpecAlias == AliasInit /\ [][AliasNext]_vars

TargetReferences == referencesFromWorkspaceNames(call.names, TsWorkspace, call.deps)
ReferencesOf(cfg) == IF IsSome(cfg.references) THEN Val(cfg.references) ELSE <<>>
CanonicalSettings(cfg) ==
    isCompilerOptionsSatisfactory(cfg.compilerOptions, defaultTSConfigCompilerOptions)

\* C4: two calls of updateReferences with the same workspace and target and
\* no other change of the file write exactly once when the config differed
\* from the target (in its settings or its reference list): the first call
\* writes, the second never does.
C4_Idempotent ==
    (call.op = "updateReferences" /\ Len(call.wrote) = 2) =>
        /\ ~call.wrote[2]
        /\ (~CanonicalSettings(Val(call.before))
               \/ Val(call.before).references # Some(TargetReferences))
              => call.wrote[1]

\* Both calls ran on a config that differed from the target
C4_Witness ==
    /\ call.op = "updateReferences" /\ Len(call.wrote) = 2
    /\ call.wrote[1]
    /\ call.deps # <<>>
    /\ AliasesOf(Val(call.disk)) # AliasesOf(Val(call.before))

\* C5 (as claimed): no write when the config on disk has the canonical
\* settings and a reference list whose set of paths is the target set,
\* whatever the order of the entries.
C5_NoWriteAnyOrder ==
    (/\ call.op = "updateReferences" /\ Len(call.wrote) >= 1
     /\ CanonicalSettings(Val(call.before))
     /\ IsSome(Val(call.before).references)
     /\ Range(ReferencesOf(Val(call.before))) = Range(TargetReferences))
        => ~call.wrote[1]

\* C5 (amended): no write when the config on disk has the canonical settings
\* and a reference list equal to the target list, entry by entry in the same
\* order.
C5_NoWriteSameOrder ==
    (/\ call.op = "updateReferences" /\ Len(call.wrote) >= 1
     /\ CanonicalSettings(Val(call.before))
     /\ Val(call.before).references = Some(TargetReferences))
        => ~call.wrote[1]

\* A call on a config in sync with a target of two references
C5_Witness ==
    /\ call.op = "updateReferences" /\ Len(call.wrote) >= 1
    /\ CanonicalSettings(Val(call.before))
    /\ Val(call.before).references = Some(TargetReferences)
    /\ Len(TargetReferences) = 2
    /\ ~call.wrote[1]

ResolvesTo(aliases, resolve) ==
    \E i \in 1..Len(aliases) : Includes(aliases[i][2], resolve)

\* C6: after updateReferences(workspace, T) the `references` list is T mapped
\* to the dependencies' paths relative to the workspace; for every reference
\* of target - current the alias keyed by the dependency's name and the
\* wildcard alias name/* are present and point at the dependency's
\* directory; for every reference of current - target no alias points at its
\* directory any more, neither exact nor wildcard.
C6_ReferencesAndAliases ==
    (call.op = "updateReferences" /\ Len(call.wrote) >= 1) =>
        LET current == ReferencesOf(Val(call.before))
            target == TargetReferences
            aliases == AliasesOf(Val(call.disk))
        IN  /\ Val(call.disk).references = Some(target)
            /\ \A i \in 1..Len(call.deps) :
                  target[i] = getReferencePath(getWorkspacePath(call.names, call.deps[i]),
                                               Some(TsWorkspace))
            /\ \A i \in 1..Len(target) : target[i] \notin Range(current) =>
                  /\ MapHas(aliases, call.deps[i])
                  /\ MapGet(aliases, call.deps[i]) = <<target[i] \o "/">>
                  /\ MapHas(aliases, call.deps[i] \o "/*")
                  /\ MapGet(aliases, call.deps[i] \o "/*") = <<target[i] \o "/*">>
            /\ \A r \in Range(current) \ Range(target) :
                  ~ResolvesTo(aliases, r \o "/") /\ ~ResolvesTo(aliases, r \o "/*")

\* A call that had a reference to add and an aliased reference to drop
C6_Witness ==
    /\ call.op = "updateReferences" /\ Len(call.wrote) >= 1
    /\ \E r \in Range(TargetReferences) : r \notin Range(ReferencesOf(Val(call.before)))
    /\ \E r \in Range(ReferencesOf(Val(call.before))) \ Range(TargetReferences) :
          ResolvesTo(AliasesOf(Val(call.before)), r \o "/")

-----------------------------------------------------------------------------
(* The engine.  A handler is an operator from the world before it to the   *)
(* world after it.  The world `w` is the registry, the files and what the   *)
(* handler did so far:                                                      *)
(*   exit  - "no", "fatal" (process.exit(1)) or "rejection" (a rejected     *)
(*           promise nobody catches, which ends the process as well);       *)
(*   wrote - the paths of the files written.                                *)
(* The asynchronous parts of one handler (Promise.all over workspaces) are  *)
(* run one workspace after the other, in the order of PathOrder.            *)

PathOrder == <<"packages/a", "packages/b", "packages/c">>
SetToSeq(S) == Filter(PathOrder, S)

getTSConfigPath(workspacePath) == workspacePath \o "/tsconfig.json"
rootPackagePath == "package.json"
rootTSConfigPath == "tsconfig.json"

\* process.argv holds --redundant
showRedundant == TRUE

World ==
    [req |-> workspaceRequirements, watching |-> watching, names |-> workspaceNames,
     deps |-> workspaceDependencies, missing |-> missingBuildInfos,
     commands |-> commandsReported, pkgWatchlist |-> workspacePackagesWatchlist,
     biWatchlist |-> buildInfoWatchlist, rootPackage |-> rootPackage,
     packages |-> packages, tsconfigs |-> tsconfigs, rootTSConfig |-> rootTSConfig,
     buildInfos |-> buildInfos, exit |-> "no", wrote |-> {},
     renamed |-> <<>>, decoded |-> <<>>, swapped |-> <<>>]

Running(w) == w.exit = "no"
Exit(w, how) == IF Running(w) THEN [w EXCEPT !.exit = how] ELSE w

\* mutatePackage(path, mutator): the file is read (a missing file rejects),
\* mutated, and written unless the mutator returned false; `r` is what the
\* mutator gives for the manifest in the file, [pkg, ret]
mutatePackage(w, workspacePath, r) ==
    IF ~Running(w) THEN w
    ELSE IF w.packages[workspacePath] = None THEN Exit(w, "rejection")
    ELSE IF SkipWrite(<<r.ret>>) THEN w
    ELSE [w EXCEPT !.packages[workspacePath] = Some(r.pkg),
                   !.wrote = @ \cup {getWorkspacePackagePath(workspacePath)}]

\* mutateTSConfig(path, mutator) without a default: a missing file ends the
\* process; `r` is what the mutator gives for the config in the file,
\* [cfg, write, exit]
mutateTSConfig(w, workspacePath, r) ==
    IF ~Running(w) THEN w
    ELSE IF w.tsconfigs[workspacePath] = None THEN Exit(w, "fatal")
    ELSE IF r.exit THEN Exit(w, "fatal")
    ELSE IF r.write
    THEN [w EXCEPT !.tsconfigs[workspacePath] = Some(r.cfg),
                   !.wrote = @ \cup {getTSConfigPath(workspacePath)}]
    ELSE w

\* the requirement bits readPackages leaves, each workspace for its manifest
readPackagesRequirements(req, pkgs, workspacePaths) ==
    [p \in Paths |->
        IF p \notin workspacePaths THEN req[p]
        ELSE IF pkgs[p] # None /\ Val(pkgs[p]).name # ""
        THEN BitOr(req[p], BitOr(Requirement_Package, Requirement_PackageName))
        ELSE IF pkgs[p] # None
        THEN BitAndNot(BitOr(req[p], Requirement_Package), Requirement_PackageName)
        ELSE BitAndNot(req[p], BitOr(Requirement_Package, Requirement_PackageName))]

RECURSIVE readPackagesNames(_, _, _)
\* namesResults.forEach((r) => r && State.workspaceNames.set(...r))
readPackagesNames(names, pkgs, order) ==
    IF order = <<>> THEN names
    ELSE readPackagesNames(
             IF pkgs[Head(order)] # None /\ Val(pkgs[Head(order)]).name # ""
             THEN MapSet(names, Head(order), Val(pkgs[Head(order)]).name) ELSE names,
             pkgs, Tail(order))

readPackages(w, workspacePaths) ==
    [w EXCEPT !.req = readPackagesRequirements(@, w.packages, workspacePaths),
              !.names = readPackagesNames(@, w.packages, SetToSeq(workspacePaths))]

readTSConfigs(w, workspacePaths) ==
    [w EXCEPT !.req = [p \in Paths |->
        IF p \notin workspacePaths THEN @[p]
        ELSE IF w.tsconfigs[p] # None THEN BitOr(@[p], Requirement_TSConfig)
        ELSE BitAndNot(@[p], Requirement_TSConfig)]]

\* the mutator of configureTSConfig; logging the name of a workspace that has
\* none ends the process
configureTSConfig(w, workspacePath) ==
    LET r == mutateConfigureWorkspaceTSConfig(Val(w.tsconfigs[workspacePath]))
    IN  mutateTSConfig(w, workspacePath,
            [cfg |-> r.cfg, write |-> r.ret # "false",
             exit |-> r.ret # "false" /\ ~HasWorkspaceName(w.names, workspacePath)])

RECURSIVE configureTSConfigs(_, _)
configureTSConfigs(w, order) ==
    IF order = <<>> THEN w
    ELSE configureTSConfigs(configureTSConfig(w, Head(order)), Tail(order))

\* a.length === b.length && a.every((item) => b.includes(item))
areEqual(a, b) == Len(a) = Len(b) /\ \A i \in 1..Len(a) : Includes(b, a[i])

\* the lists are sorted first, which areEqual does not depend on
areReferencesEqual(a, b) == areEqual(a, b)

\* the root config: [files : "none" | "empty" | "some", include, exclude :
\* whether the key is there, references : optional list]
isRootTSConfigSatisfactory(tsConfig, references) ==
    /\ ~tsConfig.include
    /\ ~tsConfig.exclude
    /\ tsConfig.files = "empty"
    /\ areReferencesEqual(IF IsSome(tsConfig.references) THEN Val(tsConfig.references)
                          ELSE <<>>, references)

defaultRootTSConfig ==
    [files |-> "empty", include |-> FALSE, exclude |-> FALSE, references |-> None]

configureRoot(w, workspacePaths) ==
    IF ~Running(w) THEN w
    ELSE IF /\ w.rootTSConfig # None
            /\ isRootTSConfigSatisfactory(
                   Val(w.rootTSConfig),
                   referencesFromWorkspacePaths(SetToSeq(workspacePaths)))
    THEN w
    ELSE [w EXCEPT !.rootTSConfig =
                     Some([files |-> "empty", include |-> FALSE, exclude |-> FALSE,
                           references |-> Some(referencesFromWorkspacePaths(
                                                   SetToSeq(workspacePaths)))]),
                   !.wrote = @ \cup {rootTSConfigPath}]

-----------------------------------------------------------------------------
(* buildinfo.ts.  A build info is [torn, files]: `torn` for a file that     *)
(* does not parse (TypeScript writes in chunks), `files` the names of the   *)
(* files the local sources reference, brought relative to the root.         *)

\* filePath.startsWith(workspacePath)
isFileBelongsToWorkspace(filePath, workspacePath) ==
    /\ Len(filePath) >= Len(workspacePath)
    /\ SubSeq(filePath, 1, Len(workspacePath)) = workspacePath

\* Array.from(getWatchedWorkspacePaths()).find(isFileBelongsToWorkspace)
\* over the watched workspaces in the order `order` of the iteration
FindWorkspace(order, file) ==
    LET hit(i) == isFileBelongsToWorkspace(file, order[i])
    IN  IF \E i \in 1..Len(order) : hit(i)
        THEN Some(order[CHOOSE i \in 1..Len(order) : hit(i) /\ \A j \in 1..(i - 1) : ~hit(j)])
        ELSE None

RECURSIVE DecodeFiles(_, _, _, _, _)
\* allFileNames.forEach(...): [deps, exit], deps a Set in insertion order
DecodeFiles(names, order, workspaceName, files, deps) ==
    IF files = <<>> THEN [deps |-> deps, exit |-> FALSE]
    ELSE LET workspacePath == FindWorkspace(order, Head(files))
         IN  IF workspacePath = None
             THEN DecodeFiles(names, order, workspaceName, Tail(files), deps)
             ELSE IF ~HasWorkspaceName(names, Val(workspacePath))
             THEN [deps |-> deps, exit |-> TRUE]
             ELSE LET name == getWorkspaceName(names, Val(workspacePath))
                  IN  DecodeFiles(names, order, workspaceName, Tail(files),
                          IF name # workspaceName /\ ~Includes(deps, name)
                          THEN Append(deps, name) ELSE deps)

\* [deps, exit, thrown]: thrown when the file cannot be read or parsed after
\* the retries, exit when a name lookup ends the process
getBuildInfoDependencies(w, workspacePath) ==
    IF w.buildInfos[workspacePath] = None \/ Val(w.buildInfos[workspacePath]).torn
    THEN [deps |-> <<>>, exit |-> FALSE, thrown |-> TRUE]
    ELSE IF ~HasWorkspaceName(w.names, workspacePath)
    THEN [deps |-> <<>>, exit |-> TRUE, thrown |-> FALSE]
    ELSE LET r == DecodeFiles(w.names,
                              SetToSeq(getWatchedWorkspacePaths(w.pkgWatchlist)),
                              getWorkspaceName(w.names, workspacePath),
                              Val(w.buildInfos[workspacePath]).files, <<>>)
         IN  [deps |-> r.deps, exit |-> r.exit, thrown |-> FALSE]

-----------------------------------------------------------------------------
(* watch.ts: the handlers *)

\* `npm uninstall -w ${workspaceName} ${redundant.map(...).join(" ")}`
UninstallCommand(workspaceName, redundant) == <<workspaceName, redundant>>

\* Promise.all([addMissingDependencies, updateReferences]) from the world
\* `w`: both have started, and they write different files; `wp` is the world
\* the manifest part leaves, `wt` the one the config part leaves
PromiseAll(wp, wt) ==
    [wp EXCEPT !.tsconfigs = wt.tsconfigs,
               !.wrote = @ \cup wt.wrote,
               !.exit = IF @ # "no" THEN @ ELSE wt.exit]

\* processBuildInfoWrite from the decoded dependencies on
processBuildInfoDependencies(w, workspacePath, workspaceName, workspaceDeps, buildInfoDeps, missing, redundant) ==
    PromiseAll(
        IF Len(missing) > 0
        THEN mutatePackage(
                 [w EXCEPT
                    !.commands = IF showRedundant /\ Len(redundant) > 0
                                 THEN @ \cup {UninstallCommand(workspaceName, redundant)}
                                 ELSE @,
                    !.deps = MapSet(@, workspaceName, buildInfoDeps),
                    !.decoded = <<workspaceDeps, buildInfoDeps>>],
                 workspacePath,
                 addMissingDependencies(Val(w.packages[workspacePath]), missing))
        ELSE [w EXCEPT
                !.commands = IF showRedundant /\ Len(redundant) > 0
                             THEN @ \cup {UninstallCommand(workspaceName, redundant)}
                             ELSE @,
                !.deps = MapSet(@, workspaceName, buildInfoDeps),
                !.decoded = <<workspaceDeps, buildInfoDeps>>],
        mutateTSConfig(w, workspacePath,
            updateReferences(w.names, Val(w.tsconfigs[workspacePath]), workspacePath,
                             buildInfoDeps)))

\* a failed read is taken for a build info that references nothing
processBuildInfoDecoded_Unguarded(w, workspacePath, workspaceName, decoded) ==
    IF decoded.exit \/ ~HasWorkspaceDependencies(w.deps, workspaceName)
    THEN Exit(w, "fatal")
    ELSE processBuildInfoDependencies(
             w, workspacePath, workspaceName,
             getWorkspaceDependencies(w.deps, workspaceName),
             decoded.deps,
             getMissingItems(getWorkspaceDependencies(w.deps, workspaceName),
                             decoded.deps),
             getRedundantItems(getWorkspaceDependencies(w.deps, workspaceName),
                               decoded.deps))

\* the decoded dependencies are not stored
processBuildInfoDecoded_NoStore(w, workspacePath, workspaceName, decoded) ==
    IF decoded.thrown \/ decoded.exit \/ ~HasWorkspaceDependencies(w.deps, workspaceName)
    THEN w
    ELSE [processBuildInfoDependencies(
              w, workspacePath, workspaceName,
              getWorkspaceDependencies(w.deps, workspaceName), decoded.deps,
              getMissingItems(getWorkspaceDependencies(w.deps, workspaceName), decoded.deps),
              getRedundantItems(getWorkspaceDependencies(w.deps, workspaceName), decoded.deps))
          EXCEPT !.deps = w.deps]

\* processBuildInfoWrite from the reading of the build info on
processBuildInfoDecoded(w, workspacePath, workspaceName, decoded) ==
    IF decoded.thrown THEN w
    ELSE IF decoded.exit THEN Exit(w, "fatal")
    ELSE IF ~HasWorkspaceDependencies(w.deps, workspaceName) THEN Exit(w, "fatal")
    ELSE processBuildInfoDependencies(
             w, workspacePath, workspaceName,
             getWorkspaceDependencies(w.deps, workspaceName),
             decoded.deps,
             getMissingItems(getWorkspaceDependencies(w.deps, workspaceName),
                             decoded.deps),
             getRedundantItems(getWorkspaceDependencies(w.deps, workspaceName),
                               decoded.deps))

processBuildInfoWrite(w, buildInfoPath, create) ==
    IF ~Running(w) THEN w
    ELSE IF ~HasWorkspaceName(w.names, buildInfoPathToWorkspacePath(buildInfoPath))
    THEN Exit(w, "fatal")
    ELSE processBuildInfoDecoded(
             IF create THEN [w EXCEPT !.missing = @ \ {buildInfoPath}] ELSE w,
             buildInfoPathToWorkspacePath(buildInfoPath),
             getWorkspaceName(w.names, buildInfoPathToWorkspacePath(buildInfoPath)),
             getBuildInfoDependencies(w, buildInfoPathToWorkspacePath(buildInfoPath)))

processBuildInfoDelete(w, buildInfoPath) ==
    IF ~Running(w) THEN w
    ELSE IF ~HasWorkspaceName(w.names, buildInfoPathToWorkspacePath(buildInfoPath))
    THEN Exit(w, "fatal")
    ELSE [w EXCEPT !.missing = @ \cup {buildInfoPath}]

watchBuildInfo(w, workspacePath) ==
    LET buildInfoPath == getBuildInfoPath(workspacePath)
        w1 == [w EXCEPT !.biWatchlist = @ \cup {buildInfoPath}]
    IN  IF ~Running(w) \/ buildInfoPath \in w.biWatchlist THEN w
        ELSE IF w.buildInfos[workspacePath] # None
        THEN processBuildInfoWrite(w1, buildInfoPath, TRUE)
        ELSE w1

\* the workspaces renameWorkspaceReferences goes through: for each entry of
\* State.workspaceDependencies that holds prevName the path of its workspace
\* ("" when getWorkspacePath finds none), in Map order
Dependents(w, prevName, newName) ==
    [i \in 1..Len(w.deps) |->
        IF w.deps[i][1] = newName \/ ~Includes(w.deps[i][2], prevName) THEN None
        ELSE IF HasWorkspacePath(w.names, w.deps[i][1])
        THEN Some(getWorkspacePath(w.names, w.deps[i][1]))
        ELSE Some("")]

RECURSIVE renameEach(_, _, _, _)
renameEach(w, dependents, prevName, newName) ==
    IF dependents = <<>> THEN w
    ELSE IF Head(dependents) = None
    THEN renameEach(w, Tail(dependents), prevName, newName)
    ELSE LET workspacePath == Val(Head(dependents))
             w1 == mutatePackage(w, workspacePath,
                       [pkg |-> renameWorkspaceInPackageDependencies(
                                    Val(w.packages[workspacePath]), prevName, newName),
                        ret |-> "void"])
             w2 == mutateTSConfig(w1, workspacePath,
                       refreshTSConfigReferencesWorkspaceRename(
                           w1.names, Val(w1.tsconfigs[workspacePath]), workspacePath))
         IN  renameEach(w2, Tail(dependents), prevName, newName)

\* the lookups of the paths come first, for every entry, and any of them
\* that fails ends the process before a file is touched
renameWorkspaceReferences(w, prevName, newName) ==
    LET dependents == Dependents(w, prevName, newName)
    IN  IF ~Running(w) THEN w
        ELSE IF Includes(dependents, Some("")) THEN Exit(w, "fatal")
        ELSE renameEach(
                 [w EXCEPT !.renamed =
                     <<prevName, newName,
                       {Val(dependents[i]) : i \in {j \in 1..Len(dependents) :
                                                      dependents[j] # None}}>>],
                 dependents, prevName, newName)

processWorkspacePackageWrite(w, packagePath, create) ==
    LET workspacePath == packagePathToWorkspacePath(packagePath)
        w1 == IF create
              THEN [w EXCEPT !.req = addRequirement(@, workspacePath, Requirement_Package)]
              ELSE w
        prevName == IF create THEN "" ELSE getWorkspaceName(w.names, workspacePath)
        pkg == Val(w1.packages[workspacePath])
        dependencies == getPackageDependencies(w1.names, pkg)
        workspaceName == pkg.name
        renamed == prevName # "" /\ prevName # workspaceName
        w2 == [w1 EXCEPT !.names = MapSet(@, workspacePath, workspaceName),
                         !.req = addRequirement(@, workspacePath,
                                                Requirement_PackageName)]
        w3 == IF renamed
              THEN [w2 EXCEPT !.deps =
                      MapDelete(MapSet(@, workspaceName,
                                       getWorkspaceDependencies(w2.deps, prevName)),
                                prevName)]
              ELSE w2
        w4 == IF create
              THEN [w3 EXCEPT !.deps = MapSet(@, workspaceName, dependencies)]
              ELSE w3
        \* `swapped` keeps the registry as renameWorkspaceReferences is called
        w5 == IF renamed
              THEN renameWorkspaceReferences(
                       [w4 EXCEPT !.swapped = <<w4.names, w4.deps>>],
                       prevName, workspaceName)
              ELSE w4
        unnamed == [w1 EXCEPT
                      !.names = MapDelete(@, workspacePath),
                      !.deps = IF prevName # "" THEN MapDelete(@, prevName) ELSE @,
                      !.req = removeRequirement(@, workspacePath,
                                                Requirement_PackageName)]
    IN  IF ~Running(w) THEN w
        ELSE IF ~create /\ ~HasWorkspaceName(w.names, workspacePath) THEN Exit(w1, "fatal")
        ELSE IF w1.packages[workspacePath] = None THEN Exit(w1, "rejection")
        ELSE IF workspaceName # "" /\ renamed
                /\ ~HasWorkspaceDependencies(w2.deps, prevName)
        THEN Exit(w2, "fatal")
        ELSE watchBuildInfo(IF workspaceName # "" THEN w5 ELSE unnamed, workspacePath)

\* processWorkspacePackageDelete: not implemented, a warning only
processWorkspacePackageDelete(w, packagePath) == w

RECURSIVE processWorkspacePackageCreates(_, _)
processWorkspacePackageCreates(w, order) ==
    IF order = <<>> THEN w
    ELSE processWorkspacePackageCreates(
             processWorkspacePackageWrite(w, getWorkspacePackagePath(Head(order)), TRUE),
             Tail(order))

\* workspacePaths.map(watchWorkspacePackage): every path is on the watchlist
\* before the manifest of the first has been read
watchWorkspacePackage(w, workspacePaths) ==
    IF ~Running(w) THEN w
    ELSE processWorkspacePackageCreates(
             [w EXCEPT !.pkgWatchlist =
                 @ \cup {getWorkspacePackagePath(p) : p \in workspacePaths}],
             SetToSeq(workspacePaths))

\* glob(pkg.workspaces || []): the root manifest is the set of the
\* directories its globs match
workspacesFromPackage(pkg) == pkg

processRootPackageCreate(w) ==
    LET workspacePaths == workspacesFromPackage(Val(w.rootPackage))
        w1 == readTSConfigs(readPackages(w, workspacePaths), workspacePaths)
        matchingWorkspacePaths == matchingWorkspaces(w1.req, workspacePaths)
        w2 == configureTSConfigs(w1, SetToSeq(matchingWorkspacePaths))
        w3 == configureRoot(w2, matchingWorkspacePaths)
    IN  IF ~Running(w) THEN w
        ELSE IF w.rootPackage = None THEN Exit(w, "rejection")
        ELSE watchWorkspacePackage(w3, matchingWorkspacePaths)

processRootPackageAdd(w) ==
    IF w.rootPackage = None THEN w ELSE processRootPackageCreate(w)

RECURSIVE removeRedundantWorkspaces(_, _)
removeRedundantWorkspaces(w, order) ==
    IF order = <<>> \/ ~Running(w) THEN w
    ELSE LET workspacePath == Head(order)
             w1 == [w EXCEPT
                      !.pkgWatchlist = @ \ {getWorkspacePackagePath(workspacePath)},
                      !.biWatchlist = @ \ {getBuildInfoPath(workspacePath)}]
         IN  IF ~HasWorkspaceName(w1.names, workspacePath) THEN Exit(w1, "fatal")
             ELSE removeRedundantWorkspaces(
                      [w1 EXCEPT
                         !.deps = MapDelete(@, getWorkspaceName(w1.names, workspacePath)),
                         !.names = MapDelete(@, workspacePath)],
                      Tail(order))

processRootPackageChange(w) ==
    LET w0 == [w EXCEPT !.watching = TRUE]
        workspacePaths == workspacesFromPackage(Val(w.rootPackage))
        watchedWorkspaces == getWatchedWorkspacePaths(w.pkgWatchlist)
        missingWorkspaces == workspacePaths \ watchedWorkspaces
        redundantWorkspaces == watchedWorkspaces \ workspacePaths
        w1 == removeRedundantWorkspaces(w0, SetToSeq(redundantWorkspaces))
        w2 == readTSConfigs(readPackages(w1, missingWorkspaces), missingWorkspaces)
    IN  IF ~Running(w) THEN w
        ELSE IF w.rootPackage = None THEN Exit(w0, "rejection")
        ELSE IF workspacePaths = watchedWorkspaces THEN w0
        ELSE IF ~Running(w1) THEN w1
        ELSE watchWorkspacePackage(w2, matchingWorkspaces(w2.req, workspacePaths))

\* the pause alone: watching.current = false, nothing cleared
processRootPackageDelete_NoClear(w) == [w EXCEPT !.watching = FALSE]

\* State.pause(): watching.current = false and clear()
processRootPackageDelete(w) ==
    [w EXCEPT !.watching = FALSE,
              !.req = [p \in Paths |-> 0],
              !.names = <<>>,
              !.deps = <<>>,
              !.missing = {},
              !.commands = {},
              !.pkgWatchlist = {},
              !.biWatchlist = {}]

\* the callback of watcher.subscribe, for one event
\* the router without the case of the pause
Route_NoPause(w, event) ==
    IF event.path = rootPackagePath
    THEN CASE event.type = "create" -> processRootPackageCreate(w)
           [] event.type = "update" -> processRootPackageChange(w)
           [] OTHER -> processRootPackageDelete(w)
    ELSE IF event.path \in w.pkgWatchlist
    THEN IF event.type = "delete" THEN processWorkspacePackageDelete(w, event.path)
         ELSE processWorkspacePackageWrite(w, event.path, event.type = "create")
    ELSE IF event.path \in w.biWatchlist
    THEN IF event.type = "delete" THEN processBuildInfoDelete(w, event.path)
         ELSE processBuildInfoWrite(w, event.path, event.type = "create")
    ELSE w

Route(w, event) ==
    IF event.path = rootPackagePath
    THEN CASE event.type = "create" -> processRootPackageCreate(w)
           [] event.type = "update" -> processRootPackageChange(w)
           [] OTHER -> processRootPackageDelete(w)
    ELSE IF ~w.watching THEN w
    ELSE IF event.path \in w.pkgWatchlist
    THEN IF event.type = "delete" THEN processWorkspacePackageDelete(w, event.path)
         ELSE processWorkspacePackageWrite(w, event.path, event.type = "create")
    ELSE IF event.path \in w.biWatchlist
    THEN IF event.type = "delete" THEN processBuildInfoDelete(w, event.path)
         ELSE processBuildInfoWrite(w, event.path, event.type = "create")
    ELSE w

\* whether the router hands the event to a handler
Dispatched(w, event) ==
    \/ event.path = rootPackagePath
    \/ w.watching /\ event.path \in (w.pkgWatchlist \cup w.biWatchlist)

-----------------------------------------------------------------------------
(* The engine in a project: watch() runs, then the watcher delivers the     *)
(* events of the changes made to the files, one event at a time, each       *)
(* handled to its end before the next.  A change from outside is made when  *)
(* no event is pending.  The engine's own write of a manifest raises an     *)
(* update event for it; its write of a workspace config makes tsc (started  *)
(* by watch() with --build --watch) rebuild and rewrite the build info of   *)
(* that workspace, which raises an update event for the build info.         *)

\* the number of changes made from outside
MaxEdits == 3

\* the workspaces that are changed from outside
ProjectPaths == {"packages/a", "packages/b"}

SourceFile(workspacePath) == workspacePath \o "/index.ts"

Package(name, dependencies, devDependencies) ==
    [name |-> name, dependencies |-> dependencies, devDependencies |-> devDependencies]

BuildInfo(files) == [torn |-> FALSE, files |-> files]
TornBuildInfo == [torn |-> TRUE, files |-> <<>>]

\* a config as the user wrote it: nothing the engine needs is there yet
UserTSConfig == [compilerOptions |-> None, references |-> None]

NoEvent == [path |-> "", type |-> "none", cause |-> "none"]
NoStep == [op |-> "none"]
Step(op, event, handled, w) ==
    [op |-> op, event |-> event, handled |-> handled, wrote |-> w.wrote,
     renamed |-> w.renamed, decoded |-> w.decoded, exit |-> w.exit,
     swapped |-> w.swapped]

\* the project on disk before watch() runs, with the given build info of
\* packages/a and the given name in the manifest of packages/b
ProjectInitWith(buildInfo, name) ==
    /\ StateInit
    /\ rootPackage \in {None, Some(ProjectPaths)}
    /\ packages = [p \in Paths |->
          CASE p = "packages/a" -> Some(Package("a", None, None))
            [] p = "packages/b" -> Some(Package(name, Some(<< <<"a", "*">> >>), None))
            [] OTHER -> None]
    /\ \E c \in {None, Some(UserTSConfig)} :
          tsconfigs = [p \in Paths |->
              CASE p = "packages/a" -> Some(UserTSConfig)
                [] p = "packages/b" -> c
                [] OTHER -> None]
    /\ rootTSConfig = None
    /\ buildInfos = [p \in Paths |->
          CASE p = "packages/a" -> buildInfo
            [] p = "packages/b" -> Some(BuildInfo(<<SourceFile("packages/a")>>))
            [] OTHER -> None]
    /\ pc = "init"
    /\ events = <<>>
    /\ edits = 0
    /\ last = NoStep

ProjectInit == ProjectInitWith(Some(BuildInfo(<<>>)), "b")

Init ==
    /\ ProjectInit
    /\ call = NoStep

\* the registry and the files the engine writes, as the handler left them
Commit(w) ==
    /\ workspaceRequirements' = w.req
    /\ watching' = w.watching
    /\ workspaceNames' = w.names
    /\ workspaceDependencies' = w.deps
    /\ missingBuildInfos' = w.missing
    /\ commandsReported' = w.commands
    /\ workspacePackagesWatchlist' = w.pkgWatchlist
    /\ buildInfoWatchlist' = w.biWatchlist
    /\ packages' = w.packages
    /\ tsconfigs' = w.tsconfigs
    /\ rootTSConfig' = w.rootTSConfig

\* the events the writes of a handler raise
SelfEvents(w) ==
    LET order == SetToSeq(Paths)
        manifest(p) == IF getWorkspacePackagePath(p) \in w.wrote
                       THEN <<[path |-> getWorkspacePackagePath(p), type |-> "update",
                               cause |-> "engine"]>>
                       ELSE <<>>
        rebuilt(p) == IF getTSConfigPath(p) \in w.wrote /\ w.buildInfos[p] # None
                      THEN <<[path |-> getBuildInfoPath(p), type |-> "update",
                              cause |-> "tsc"]>>
                      ELSE <<>>
    IN  manifest(order[1]) \o manifest(order[2]) \o manifest(order[3])
            \o rebuilt(order[1]) \o rebuilt(order[2]) \o rebuilt(order[3])

\* watch(): processRootPackageAdd, then tsc and the watcher are started, so
\* that the writes made here raise no event
Start ==
    /\ pc = "init"
    /\ \E w \in {processRootPackageAdd(World)} :
           /\ Commit(w)
           /\ pc' = IF Running(w) THEN "running" ELSE "exited"
           /\ last' = Step("start",
                           [path |-> rootPackagePath,
                            type |-> IF rootPackage = None THEN "absent" ELSE "add",
                            cause |-> "external"],
                           rootPackage # None, w)
    /\ UNCHANGED <<rootPackage, buildInfos, events, edits, call>>

\* the watcher callback for the oldest pending event
Dispatch ==
    /\ pc = "running"
    /\ events # <<>>
    /\ \E w \in {Route(World, Head(events))} :
           /\ Commit(w)
           /\ pc' = IF Running(w) THEN "running" ELSE "exited"
           /\ events' = IF Running(w) THEN Tail(events) \o SelfEvents(w) ELSE <<>>
           /\ last' = Step("dispatch", Head(events), Dispatched(World, Head(events)), w)
    /\ UNCHANGED <<rootPackage, buildInfos, edits, call>>

CanEdit == pc = "running" /\ events = <<>> /\ edits < MaxEdits

Edited(path, existed) ==
    LET event == [path |-> path, type |-> IF existed THEN "update" ELSE "create",
                  cause |-> "external"]
    IN  /\ events' = <<event>>
        /\ edits' = edits + 1
        /\ last' = Step("edit", event, FALSE, World)
        /\ UNCHANGED <<engineVars, pc, call>>

Deleted(path) ==
    LET event == [path |-> path, type |-> "delete", cause |-> "external"]
    IN  /\ events' = <<event>>
        /\ edits' = edits + 1
        /\ last' = Step("edit", event, FALSE, World)
        /\ UNCHANGED <<engineVars, pc, call>>

\* what the globs of a written root manifest match
GlobResults == {ProjectPaths, {"packages/a"}}

WriteRootPackage ==
    /\ CanEdit
    /\ \E workspacePaths \in GlobResults : rootPackage' = Some(workspacePaths)
    /\ Edited(rootPackagePath, rootPackage # None)
    /\ UNCHANGED <<packages, tsconfigs, rootTSConfig, buildInfos>>

DeleteRootPackage ==
    /\ CanEdit
    /\ rootPackage # None
    /\ rootPackage' = None
    /\ Deleted(rootPackagePath)
    /\ UNCHANGED <<packages, tsconfigs, rootTSConfig, buildInfos>>

\* a dependency field with the key put in (at the end) or taken out
Toggle(field, key) ==
    IF field = None THEN Some(<< <<key, "*">> >>)
    ELSE IF MapHas(Val(field), key) THEN Some(MapDelete(Val(field), key))
    ELSE Some(Append(Val(field), <<key, "*">>))

\* the manifests an editor leaves in place of `pkg`
PackageEdits(pkg) ==
    IF pkg = None
    THEN {Package(n, dependencies, devDependencies) :
             n \in Names,
             dependencies \in {None} \cup {Some(<< <<k, "*">> >>) : k \in Names},
             devDependencies \in {None} \cup {Some(<< <<k, "*">> >>) : k \in Names}}
    ELSE {[Val(pkg) EXCEPT !.name = n] : n \in (Names \cup {""}) \ {Val(pkg).name}}
         \cup {[Val(pkg) EXCEPT !.dependencies = Toggle(@, k)] : k \in Names}
         \cup {[Val(pkg) EXCEPT !.devDependencies = Toggle(@, k)] : k \in Names}

WritePackage ==
    /\ CanEdit
    /\ \E p \in ProjectPaths :
          /\ \E pkg \in PackageEdits(packages[p]) :
                packages' = [packages EXCEPT ![p] = Some(pkg)]
          /\ Edited(getWorkspacePackagePath(p), packages[p] # None)
    /\ UNCHANGED <<rootPackage, tsconfigs, rootTSConfig, buildInfos>>

DeletePackage ==
    /\ CanEdit
    /\ \E p \in ProjectPaths :
          /\ packages[p] # None
          /\ packages' = [packages EXCEPT ![p] = None]
          /\ Deleted(getWorkspacePackagePath(p))
    /\ UNCHANGED <<rootPackage, tsconfigs, rootTSConfig, buildInfos>>

\* the build infos tsc leaves for a workspace: what its sources reference
\* of the other workspaces, or a file caught half-written
BuildInfoEdits(p) ==
    {TornBuildInfo}
        \cup {BuildInfo(files) : files \in
                 {<<>>} \cup {<<SourceFile(q)>> : q \in ProjectPaths \ {p}}}

WriteBuildInfo ==
    /\ CanEdit
    /\ \E p \in ProjectPaths :
          /\ \E buildInfo \in BuildInfoEdits(p) :
                buildInfos' = [buildInfos EXCEPT ![p] = Some(buildInfo)]
          /\ Edited(getBuildInfoPath(p), buildInfos[p] # None)
    /\ UNCHANGED <<rootPackage, packages, tsconfigs, rootTSConfig>>

DeleteBuildInfo ==
    /\ CanEdit
    /\ \E p \in ProjectPaths :
          /\ buildInfos[p] # None
          /\ buildInfos' = [buildInfos EXCEPT ![p] = None]
          /\ Deleted(getBuildInfoPath(p))
    /\ UNCHANGED <<rootPackage, packages, tsconfigs, rootTSConfig>>

Next ==
    \/ Start
    \/ Dispatch
    \/ WriteRootPackage
    \/ DeleteRootPackage
    \/ WritePackage
    \/ DeletePackage
    \/ WriteBuildInfo
    \/ DeleteBuildInfo

Spec == Init /\ [][Next]_vars

\* the engine in a project whose two manifests have the same name: nothing
\* in watch() or in the handlers looks for that
SameNameInit ==
    /\ ProjectInitWith(Some(BuildInfo(<<>>)), "a")
    /\ call = NoStep

SpecSameName == SameNameInit /\ [][Next]_vars

\* every pending event is handled in the end
\* weak fairness of Start and of Dispatch: the watcher delivers every queued
\* event.  ENABLED is written out as the guard of each action
FairSpec ==
    /\ Spec
    /\ ([]<>~(pc = "init") \/ []<><<Start>>_vars)
    /\ ([]<>~(pc = "running" /\ events # <<>>) \/ []<><<Dispatch>>_vars)

-----------------------------------------------------------------------------
(* Handlers of build info events that overlap.  processBuildInfoWrite       *)
(* awaits the read of the build info; until the read settles, the watcher   *)
(* may hand further events to further handlers.  From the settling of its   *)
(* read a handler runs on without a pause up to the point where the decoded *)
(* dependencies are stored; its writes of files, which come after, are      *)
(* taken into the same step and the events they raise are left out.         *)

\* the number of times tsc writes the build info, each raising an event that
\* gets a handler of its own
MaxWrites == 2
\* the number of failed reads after which withRetry gives up
RaceRetries == 1

RaceWorkspace == "packages/a"
Handlers == 1..MaxWrites

IdleHandler ==
    [state |-> "idle", type |-> "none", workspaceName |-> "", attempts |-> 0,
     snapshot |-> None, decoded |-> None, config |-> None]

\* tsc has built packages/a before, or not yet
RaceInit ==
    /\ \E buildInfo \in {None, Some(BuildInfo(<<>>))} : ProjectInitWith(buildInfo, "b")
    /\ call = [op |-> "processBuildInfoWrite", handlers |-> [h \in Handlers |-> IdleHandler],
               settled |-> <<>>, writes |-> 0]

RaceFrame == UNCHANGED <<rootPackage, edits, last>>

\* what a read of the build info found cannot be parsed, or there was no file
RaceUnreadable(snapshot) == IF snapshot = None THEN TRUE ELSE Val(snapshot).torn

\* tsc writes the build info, whole or, seen by a reader in the middle of
\* the writing, torn
TscWrites ==
    /\ pc = "running"
    /\ call.writes < MaxWrites
    /\ \E buildInfo \in BuildInfoEdits(RaceWorkspace) :
          buildInfos' = [buildInfos EXCEPT ![RaceWorkspace] = Some(buildInfo)]
    /\ events' = Append(events,
                        [path |-> getBuildInfoPath(RaceWorkspace),
                         type |-> IF buildInfos[RaceWorkspace] = None THEN "create" ELSE "update",
                         cause |-> "tsc"])
    /\ call' = [call EXCEPT !.writes = @ + 1]
    /\ UNCHANGED <<engineVars, packages, tsconfigs, rootTSConfig, pc>>
    /\ RaceFrame

\* the events but the i-th
WithoutEvent(i) == SubSeq(events, 1, i - 1) \o SubSeq(events, i + 1, Len(events))

\* the router and processBuildInfoWrite up to the await of the read, for the
\* pending event i and the free handler h
HandlerStarts(h, i) ==
    LET event == events[i]
        workspacePath == buildInfoPathToWorkspacePath(event.path)
    IN  /\ events' = WithoutEvent(i)
        /\ IF ~(watching /\ event.path \in buildInfoWatchlist)
           THEN UNCHANGED <<call, missingBuildInfos, pc>>
           ELSE IF ~HasWorkspaceName(workspaceNames, workspacePath)
           THEN pc' = "exited" /\ UNCHANGED <<call, missingBuildInfos>>
           ELSE /\ call' = [call EXCEPT !.handlers[h] =
                               [state |-> "reading", type |-> event.type,
                                workspaceName |-> getWorkspaceName(workspaceNames, workspacePath),
                                attempts |-> 0, snapshot |-> None, decoded |-> None,
                                config |-> None]]
                /\ missingBuildInfos' = IF event.type = "create"
                                        THEN missingBuildInfos \ {event.path}
                                        ELSE missingBuildInfos
                /\ pc' = pc

RaceDispatch ==
    /\ pc = "running"
    /\ \E i \in 1..Len(events), h \in Handlers :
          /\ events[i].path \in {getBuildInfoPath(p) : p \in Paths}
          /\ call.handlers[h].state = "idle"
          /\ \A g \in Handlers : g < h => call.handlers[g].state # "idle"
          /\ HandlerStarts(h, i)
    /\ UNCHANGED <<workspaceRequirements, watching, workspaceNames, workspaceDependencies,
                   commandsReported, workspacePackagesWatchlist, buildInfoWatchlist,
                   packages, tsconfigs, rootTSConfig, buildInfos>>
    /\ RaceFrame

\* readFile of a handler takes the content of the file as it is now; its
\* promise settles later
ReadFile ==
    /\ pc = "running"
    /\ \E h \in Handlers :
          /\ call.handlers[h].state = "reading"
          /\ call' = [call EXCEPT !.handlers[h].state = "read",
                                  !.handlers[h].snapshot = buildInfos[RaceWorkspace]]
    /\ UNCHANGED <<engineVars, fileVars, pc, events>>
    /\ RaceFrame

\* a read of the handler settles as failed: withRetry waits and reads again,
\* or gives up and the handler returns
ReadFails ==
    /\ pc = "running"
    /\ \E h \in Handlers :
          /\ call.handlers[h].state = "read"
          /\ RaceUnreadable(call.handlers[h].snapshot)
          /\ call' = IF call.handlers[h].attempts >= RaceRetries
                     THEN [call EXCEPT !.handlers[h].state = "thrown",
                                       !.settled = Append(@, h)]
                     ELSE [call EXCEPT !.handlers[h].state = "reading",
                                       !.handlers[h].attempts = @ + 1]
    /\ UNCHANGED <<engineVars, fileVars, pc, events>>
    /\ RaceFrame

\* the world in which the build info of the workspace is what the read found
WorldRead(snapshot) == [World EXCEPT !.buildInfos[RaceWorkspace] = snapshot]

\* what the handler does from the settling of its read on
Resumed(h) ==
    [processBuildInfoDecoded(
         World, RaceWorkspace, call.handlers[h].workspaceName,
         getBuildInfoDependencies(WorldRead(call.handlers[h].snapshot), RaceWorkspace))
     EXCEPT !.decoded = getBuildInfoDependencies(WorldRead(call.handlers[h].snapshot),
                                                 RaceWorkspace).deps]

\* the read of the handler settles with a build info and the handler runs to
\* its end
ReadSucceeds ==
    /\ pc = "running"
    /\ \E h \in Handlers :
          /\ call.handlers[h].state = "read"
          /\ ~RaceUnreadable(call.handlers[h].snapshot)
          /\ \E w \in {Resumed(h)} :
                /\ Commit(w)
                /\ pc' = IF Running(w) THEN "running" ELSE "exited"
                /\ call' = [call EXCEPT
                              !.handlers[h].state = IF Running(w) THEN "stored" ELSE "exited",
                              !.handlers[h].decoded = Some(w.decoded),
                              !.settled = Append(@, h)]
    /\ UNCHANGED <<buildInfos, events>>
    /\ RaceFrame

RaceStart ==
    /\ Start
    /\ call.op = "processBuildInfoWrite"

\* the root manifest is written, which the engine, paused since watch(), takes
\* for the signal to begin
RootTouched ==
    /\ ~watching
    /\ call.op = "processBuildInfoWrite"
    /\ WriteRootPackage

RootDispatch ==
    /\ call.op = "processBuildInfoWrite"
    /\ events # <<>>
    /\ Head(events).path = rootPackagePath
    /\ Dispatch

RaceNext ==
    \/ RaceStart
    \/ RootTouched
    \/ RootDispatch
    \/ TscWrites
    \/ RaceDispatch
    \/ ReadFile
    \/ ReadFails
    \/ ReadSucceeds

SpecRace == RaceInit /\ [][RaceNext]_vars

-----------------------------------------------------------------------------
(* The same handlers with the writing of the workspace's config taken apart. *)
(* After the decoded dependencies are stored, TSConfig.updateReferences      *)
(* awaits the read of tsconfig.json, mutates what it read, awaits the        *)
(* formatting and awaits the write: the read takes the file as it is then,   *)
(* the write puts the mutated copy in its place, and other handlers run in   *)
(* between.  The manifest's write is left in the step of the storing.        *)

\* the handler from the settling of its read up to the call of
\* TSConfig.updateReferences: the config is as it was
StoredOnly(h) ==
    IF Running(Resumed(h))
    THEN [Resumed(h) EXCEPT !.tsconfigs = tsconfigs,
                            !.wrote = @ \ {getTSConfigPath(RaceWorkspace)}]
    ELSE Resumed(h)

\* the read of the handler settles with a build info; the handler stores what
\* it decoded and calls TSConfig.updateReferences
ReadStores ==
    /\ pc = "running"
    /\ \E h \in Handlers :
          /\ call.handlers[h].state = "read"
          /\ ~RaceUnreadable(call.handlers[h].snapshot)
          /\ \E w \in {StoredOnly(h)} :
                /\ Commit(w)
                /\ pc' = IF Running(w) THEN "running" ELSE "exited"
                /\ call' = [call EXCEPT
                              !.handlers[h].state = IF Running(w) THEN "config" ELSE "exited",
                              !.handlers[h].decoded = Some(w.decoded),
                              !.settled = Append(@, h)]
    /\ UNCHANGED <<buildInfos, events>>
    /\ RaceFrame

\* readTSConfig of mutateTSConfig takes the config as it is now
ConfigRead ==
    /\ pc = "running"
    /\ \E h \in Handlers :
          /\ call.handlers[h].state = "config"
          /\ call' = [call EXCEPT !.handlers[h].state = "format",
                                  !.handlers[h].config = tsconfigs[RaceWorkspace]]
    /\ UNCHANGED <<engineVars, fileVars, pc, events>>
    /\ RaceFrame

\* the rest of mutateTSConfig: the mutator of updateReferences on what was
\* read, with the dependencies the handler decoded, and the write
ConfigWrite ==
    /\ pc = "running"
    /\ \E h \in Handlers :
          /\ call.handlers[h].state = "format"
          /\ \E w \in {mutateTSConfig(
                           [World EXCEPT !.tsconfigs[RaceWorkspace] = call.handlers[h].config],
                           RaceWorkspace,
                           IF call.handlers[h].config = None
                           THEN [cfg |-> UserTSConfig, write |-> FALSE, exit |-> TRUE]
                           ELSE updateReferences(workspaceNames, Val(call.handlers[h].config),
                                                 RaceWorkspace,
                                                 Val(call.handlers[h].decoded)))} :
                /\ tsconfigs' = IF getTSConfigPath(RaceWorkspace) \in w.wrote
                                THEN [tsconfigs EXCEPT ![RaceWorkspace] =
                                          w.tsconfigs[RaceWorkspace]]
                                ELSE tsconfigs
                /\ pc' = IF Running(w) THEN "running" ELSE "exited"
                /\ call' = [call EXCEPT
                              !.handlers[h].state = IF Running(w) THEN "done" ELSE "exited"]
    /\ UNCHANGED <<engineVars, packages, rootTSConfig, buildInfos, events>>
    /\ RaceFrame

ConfigRaceNext ==
    \/ RaceStart
    \/ RootTouched
    \/ RootDispatch
    \/ TscWrites
    \/ RaceDispatch
    \/ ReadFile
    \/ ReadFails
    \/ ReadStores
    \/ ConfigRead
    \/ ConfigWrite

SpecConfigRace == RaceInit /\ [][ConfigRaceNext]_vars

-----------------------------------------------------------------------------
(* Handlers of manifest events that overlap with each other and with the    *)
(* handler of the root manifest.                                            *)
(* processWorkspacePackageWrite looks the previous name up, then awaits the *)
(* read of the manifest; until the read settles the watcher hands further   *)
(* events to further handlers.  From the settling of its read the handler   *)
(* is taken to its end in one step, and the events its writes raise are     *)
(* left out.                                                                *)

\* the number of manifest events that get a handler
MaxManifestEvents == 2

ManifestHandlers == 1..MaxManifestEvents
ManifestPaths == {getWorkspacePackagePath(p) : p \in ProjectPaths}

IdleManifestHandler ==
    [state |-> "idle", path |-> "", create |-> FALSE, prevName |-> "", snapshot |-> None]

\* tsc has built packages/a before, or not yet
ManifestRaceInit ==
    /\ \E buildInfo \in {None, Some(BuildInfo(<<>>))} : ProjectInitWith(buildInfo, "b")
    /\ call = [op |-> "processBuildInfoWrite", handlers |-> [h \in Handlers |-> IdleHandler],
               settled |-> <<>>, writes |-> 0,
               manifests |-> [h \in ManifestHandlers |-> IdleManifestHandler]]

\* processWorkspacePackageWrite from the settling of readPackage on, with the
\* previous name it looked up before the read and what the read found
processWorkspacePackageRead(w, packagePath, create, prevName, read) ==
    LET workspacePath == packagePathToWorkspacePath(packagePath)
        pkg == Val(read)
        dependencies == getPackageDependencies(w.names, pkg)
        workspaceName == pkg.name
        renamed == prevName # "" /\ prevName # workspaceName
        w2 == [w EXCEPT !.names = MapSet(@, workspacePath, workspaceName),
                        !.req = addRequirement(@, workspacePath,
                                               Requirement_PackageName)]
        w3 == IF renamed
              THEN [w2 EXCEPT !.deps =
                      MapDelete(MapSet(@, workspaceName,
                                       getWorkspaceDependencies(w2.deps, prevName)),
                                prevName)]
              ELSE w2
        w4 == IF create
              THEN [w3 EXCEPT !.deps = MapSet(@, workspaceName, dependencies)]
              ELSE w3
        w5 == IF renamed
              THEN renameWorkspaceReferences(
                       [w4 EXCEPT !.swapped = <<w4.names, w4.deps>>],
                       prevName, workspaceName)
              ELSE w4
        unnamed == [w EXCEPT
                      !.names = MapDelete(@, workspacePath),
                      !.deps = IF prevName # "" THEN MapDelete(@, prevName) ELSE @,
                      !.req = removeRequirement(@, workspacePath,
                                                Requirement_PackageName)]
    IN  IF ~Running(w) THEN w
        ELSE IF read = None THEN Exit(w, "rejection")
        ELSE IF workspaceName # "" /\ renamed
                /\ ~HasWorkspaceDependencies(w2.deps, prevName)
        THEN Exit(w2, "fatal")
        ELSE watchBuildInfo(IF workspaceName # "" THEN w5 ELSE unnamed, workspacePath)

ManifestFrame == UNCHANGED <<rootPackage, edits, last>>

\* the router and processWorkspacePackageWrite up to the await of the read,
\* for the oldest pending event and the free handler h
ManifestStarts(h) ==
    LET event == Head(events)
        workspacePath == packagePathToWorkspacePath(event.path)
        create == event.type = "create"
    IN  /\ events' = Tail(events)
        /\ IF ~(watching /\ event.path \in workspacePackagesWatchlist)
              \/ event.type = "delete"
           THEN UNCHANGED <<call, workspaceRequirements, pc>>
           ELSE IF ~create /\ ~HasWorkspaceName(workspaceNames, workspacePath)
           THEN pc' = "exited" /\ UNCHANGED <<call, workspaceRequirements>>
           ELSE /\ call' = [call EXCEPT !.manifests[h] =
                               [state |-> "reading", path |-> event.path, create |-> create,
                                prevName |-> IF create THEN ""
                                             ELSE getWorkspaceName(workspaceNames,
                                                                   workspacePath),
                                snapshot |-> None]]
                /\ workspaceRequirements' =
                       IF create
                       THEN addRequirement(workspaceRequirements, workspacePath,
                                           Requirement_Package)
                       ELSE workspaceRequirements
                /\ pc' = pc

ManifestDispatch ==
    /\ pc = "running"
    /\ events # <<>>
    /\ Head(events).path \in ManifestPaths
    /\ \E h \in ManifestHandlers :
          /\ call.manifests[h].state = "idle"
          /\ \A g \in ManifestHandlers : g < h => call.manifests[g].state # "idle"
          /\ ManifestStarts(h)
    /\ UNCHANGED <<watching, workspaceNames, workspaceDependencies, missingBuildInfos,
                   commandsReported, workspacePackagesWatchlist, buildInfoWatchlist,
                   packages, tsconfigs, rootTSConfig, buildInfos>>
    /\ ManifestFrame

\* readFile of a manifest handler takes the content of the file as it is now
ManifestReadFile ==
    /\ pc = "running"
    /\ \E h \in ManifestHandlers :
          /\ call.manifests[h].state = "reading"
          /\ call' = [call EXCEPT
                        !.manifests[h].state = "read",
                        !.manifests[h].snapshot =
                            packages[packagePathToWorkspacePath(call.manifests[h].path)]]
    /\ UNCHANGED <<engineVars, fileVars, pc, events>>
    /\ ManifestFrame

\* the read of a manifest handler settles and the handler runs to its end
ManifestResumes ==
    /\ pc = "running"
    /\ \E h \in ManifestHandlers :
          /\ call.manifests[h].state = "read"
          /\ \E w \in {processWorkspacePackageRead(
                           World, call.manifests[h].path, call.manifests[h].create,
                           call.manifests[h].prevName, call.manifests[h].snapshot)} :
                /\ Commit(w)
                /\ pc' = IF Running(w) THEN "running" ELSE "exited"
                /\ call' = [call EXCEPT
                              !.manifests[h].state = IF Running(w) THEN "done" ELSE w.exit]
    /\ UNCHANGED <<buildInfos, events>>
    /\ ManifestFrame

\* an editor saves the manifest of a workspace
ManifestWritten ==
    /\ call.op = "processBuildInfoWrite"
    /\ watching
    /\ WritePackage

\* the root manifest is rewritten while the engine watches
RootRewritten ==
    /\ call.op = "processBuildInfoWrite"
    /\ watching
    /\ WriteRootPackage

RootDeleted ==
    /\ call.op = "processBuildInfoWrite"
    /\ watching
    /\ DeleteRootPackage

ManifestRaceNext ==
    \/ RaceStart
    \/ RootTouched
    \/ RootRewritten
    \/ RootDeleted
    \/ RootDispatch
    \/ ManifestWritten
    \/ ManifestDispatch
    \/ ManifestReadFile
    \/ ManifestResumes

SpecManifestRace == ManifestRaceInit /\ [][ManifestRaceNext]_vars

-----------------------------------------------------------------------------
(* Utils.areEqual and the comparisons built on it, on their own: two lists  *)
(* of reference paths, which a config written by hand may hold twice        *)

\* the length of the compared lists
MaxEqualLen == 2

ComparedLists == UNION {[1..k -> ReferencePaths] : k \in 0..MaxEqualLen}

EqualInit ==
    /\ StateInit
    /\ NoProject
    /\ \E a \in ComparedLists, b \in ComparedLists :
          call = [op |-> "areEqual", a |-> a, b |-> b, fn |-> "none", result |-> FALSE]

EqualFrame == UNCHANGED <<engineVars, fileVars, processVars>>

CallAreEqual ==
    /\ call.op = "areEqual"
    /\ call.fn = "none"
    /\ call' = [call EXCEPT !.fn = "areEqual", !.result = areEqual(call.a, call.b)]
    /\ EqualFrame

CallAreReferencesEqual ==
    /\ call.op = "areEqual"
    /\ call.fn = "none"
    /\ call' = [call EXCEPT !.fn = "areReferencesEqual",
                            !.result = areReferencesEqual(call.a, call.b)]
    /\ EqualFrame

\* the root config with the first list for its references, checked against
\* the second
CallIsRootTSConfigSatisfactory ==
    /\ call.op = "areEqual"
    /\ call.fn = "none"
    /\ call' = [call EXCEPT
                  !.fn = "isRootTSConfigSatisfactory",
                  !.result = isRootTSConfigSatisfactory(
                                 [defaultRootTSConfig EXCEPT !.references = Some(call.a)],
                                 call.b)]
    /\ EqualFrame

EqualNext ==
    \/ CallAreEqual
    \/ CallAreReferencesEqual
    \/ CallIsRootTSConfigSatisfactory

SpecEqual == EqualInit /\ [][EqualNext]_vars

-----------------------------------------------------------------------------
(* The lookups of the registry on their own (workspaces.ts): a registry as  *)
(* the handlers leave it, names being non-empty strings, and one lookup.    *)
(* A lookup gives [exit, value]: exit for process.exit(1).                  *)

\* the number of workspaces with a name, and of names with dependencies
MaxRegistered == 2
\* the length of a list of dependencies
MaxListed == 1

\* State.workspaceNames.get(workspacePath); if (!name) process.exit(1)
lookupWorkspaceName(names, workspacePath) ==
    IF MapHas(names, workspacePath) /\ MapGet(names, workspacePath) # ""
    THEN [exit |-> FALSE, value |-> Some(MapGet(names, workspacePath))]
    ELSE [exit |-> TRUE, value |-> None]

\* Array.from(State.workspaceNames).find(([, name]) => name === workspaceName)?.[0];
\* if (!path) process.exit(1)
lookupWorkspacePath(names, workspaceName) ==
    LET hit(i) == names[i][2] = workspaceName
        found == IF \E i \in 1..Len(names) : hit(i)
                 THEN Some(names[CHOOSE i \in 1..Len(names) :
                                     hit(i) /\ \A j \in 1..(i - 1) : ~hit(j)][1])
                 ELSE None
    IN  IF found # None /\ found # Some("")
        THEN [exit |-> FALSE, value |-> found]
        ELSE [exit |-> TRUE, value |-> None]

\* an empty list taken for no list
lookupWorkspaceDependencies_NonEmpty(deps, workspaceName) ==
    IF MapHas(deps, workspaceName) /\ MapGet(deps, workspaceName) # <<>>
    THEN [exit |-> FALSE, value |-> Some(MapGet(deps, workspaceName))]
    ELSE [exit |-> TRUE, value |-> None]

\* State.workspaceDependencies.get(workspaceName); if (!deps) process.exit(1):
\* an array, empty or not, is truthy
lookupWorkspaceDependencies(deps, workspaceName) ==
    IF MapHas(deps, workspaceName)
    THEN [exit |-> FALSE, value |-> Some(MapGet(deps, workspaceName))]
    ELSE [exit |-> TRUE, value |-> None]

\* the maps with up to n keys of K, in each order of insertion, to values of V
MapsUpTo(K, V, n) ==
    UNION {{[i \in 1..Len(keys) |-> <<keys[i], values[i]>>] :
               values \in [1..Len(keys) -> V]} : keys \in SeqsUpTo(K, n)}

RegistryInit ==
    /\ workspaceNames \in MapsUpTo(Paths, Names, MaxRegistered)
    /\ workspaceDependencies \in MapsUpTo(Names, SeqsUpTo(Names, MaxListed), MaxRegistered - 1)
    /\ workspaceRequirements = [p \in Paths |-> 0]
    /\ watching = FALSE
    /\ missingBuildInfos = {}
    /\ commandsReported = {}
    /\ workspacePackagesWatchlist = {}
    /\ buildInfoWatchlist = {}
    /\ NoProject
    /\ call = [op |-> "none"]

Looked(op, key, r) ==
    /\ call.op = "none"
    /\ call' = [op |-> op, key |-> key, exit |-> r.exit, value |-> r.value]
    /\ UNCHANGED <<engineVars, fileVars, processVars>>

CallGetWorkspaceName ==
    \E workspacePath \in Paths :
        Looked("getWorkspaceName", workspacePath,
               lookupWorkspaceName(workspaceNames, workspacePath))

CallGetWorkspacePath ==
    \E workspaceName \in Names :
        Looked("getWorkspacePath", workspaceName,
               lookupWorkspacePath(workspaceNames, workspaceName))

CallGetWorkspaceDependencies ==
    \E workspaceName \in Names :
        Looked("getWorkspaceDependencies", workspaceName,
               lookupWorkspaceDependencies(workspaceDependencies, workspaceName))

RegistryNext == CallGetWorkspaceName \/ CallGetWorkspacePath \/ CallGetWorkspaceDependencies

SpecRegistry == RegistryInit /\ [][RegistryNext]_vars

-----------------------------------------------------------------------------
(* The readiness bits on their own (workspaces.ts): calls of addRequirement *)
(* and removeRequirement, each with one bit or several (package.ts passes   *)
(* Package | PackageName), and calls of matchingWorkspaces.  `call` keeps   *)
(* for each bit of each path which call was the last to name it.            *)

\* the number of calls of addRequirement and removeRequirement
MaxCalls == 3

\* the requirement arguments: the masks of one bit or more
RequirementMasks == {SumBits(S) : S \in (SUBSET RequirementBits) \ {{}}}

ReqInit ==
    /\ StateInit
    /\ NoProject
    /\ call = [op |-> "none", calls |-> 0,
               lastCall |-> [p \in Paths |-> [b \in RequirementBits |-> "none"]]]

\* the bookkeeping of a call that names the bits of `requirement` for `path`
Called(op, path, requirement) ==
    [op |-> op, calls |-> call.calls + 1, path |-> path, requirement |-> requirement,
     before |-> workspaceRequirements,
     lastCall |-> [call.lastCall EXCEPT ![path] =
                     [b \in RequirementBits |->
                         IF HasBit(requirement, b) THEN op ELSE call.lastCall[path][b]]]]

ReqFrame ==
    UNCHANGED <<watching, workspaceNames, workspaceDependencies, missingBuildInfos,
                commandsReported, workspacePackagesWatchlist, buildInfoWatchlist,
                fileVars, processVars>>

CallAddRequirement ==
    /\ call.calls < MaxCalls
    /\ \E path \in Paths, requirement \in RequirementMasks :
          /\ workspaceRequirements' = addRequirement(workspaceRequirements, path, requirement)
          /\ call' = Called("addRequirement", path, requirement)
    /\ ReqFrame

CallRemoveRequirement ==
    /\ call.calls < MaxCalls
    /\ \E path \in Paths, requirement \in RequirementMasks :
          /\ workspaceRequirements' = removeRequirement(workspaceRequirements, path, requirement)
          /\ call' = Called("removeRequirement", path, requirement)
    /\ ReqFrame

\* matchingWorkspaces(workspacePaths): a copy of the set is filtered, the
\* argument is left as it was
CallMatchingWorkspaces ==
    /\ call.op # "matchingWorkspaces"
    /\ \E workspacePaths \in SUBSET Paths :
          call' = [op |-> "matchingWorkspaces", calls |-> call.calls,
                   lastCall |-> call.lastCall, workspacePaths |-> workspacePaths,
                   argumentAfter |-> workspacePaths,
                   result |-> matchingWorkspaces(workspaceRequirements, workspacePaths)]
    /\ UNCHANGED workspaceRequirements
    /\ ReqFrame

ReqNext == CallAddRequirement \/ CallRemoveRequirement \/ CallMatchingWorkspaces

SpecReq == ReqInit /\ [][ReqNext]_vars

-----------------------------------------------------------------------------
(* The differences of two collections on their own (utils.ts): the array   *)
(* functions, whose arguments may repeat an item, and the Set functions.    *)

\* the length of an array argument
MaxItems == 2

\* arrays over the names, an item possibly repeated
Arrays == UNION {[1..k -> Names] : k \in 0..MaxItems}

DiffInit ==
    /\ StateInit
    /\ NoProject
    /\ call \in {[op |-> "none", actual |-> actual, next |-> next] :
                    actual \in Arrays, next \in Arrays}

DiffFrame == UNCHANGED <<engineVars, fileVars, processVars>>

\* getMissingItems(actual, next) and getRedundantItems(actual, next)
CallArrayItems ==
    /\ call.op = "none"
    /\ call' = [op |-> "arrays", actual |-> Range(call.actual), next |-> Range(call.next),
                missing |-> Range(getMissingItems(call.actual, call.next)),
                redundant |-> Range(getRedundantItems(call.actual, call.next))]
    /\ DiffFrame

\* getSetMissingItems(actual, next) and getSetRedundantItems(actual, next)
\* of the Sets made of the two arrays
CallSetItems ==
    /\ call.op = "none"
    /\ call' = [op |-> "sets", actual |-> Range(call.actual), next |-> Range(call.next),
                missing |-> getSetMissingItems(Range(call.actual), Range(call.next)),
                redundant |-> getSetRedundantItems(Range(call.actual), Range(call.next))]
    /\ DiffFrame

DiffNext == CallArrayItems \/ CallSetItems

SpecDiff == DiffInit /\ [][DiffNext]_vars

-----------------------------------------------------------------------------
(* watch() step by step, and the SIGINT handler it registers (watch.ts).    *)
(* `call` holds the position of watch(), the module variable                *)
(* watcherSubscription, the tracked children, whether the native watcher is *)
(* subscribed, the SIGINT handlers run so far and the order of what they    *)
(* did.  A handler that reads `unsubscribe` of the undefined                *)
(* watcherSubscription throws; the rejection of its promise is unhandled,   *)
(* which ends the process or only warns, as the runtime is set up.          *)

\* the number of SIGINT signals delivered
MaxSignals == 2

SignalInit ==
    /\ ProjectInit
    /\ call = [op |-> "watch", at |-> "registered", watcherSubscription |-> "undefined",
               subscribed |-> FALSE, children |-> {}, spawned |-> {}, killed |-> {},
               handlers |-> <<>>, log |-> <<>>]

Alive == pc # "exited" /\ call.op = "watch"

SignalFrame == UNCHANGED <<engineVars, fileVars, processVars>>

\* await processRootPackageAdd()
WatchRootPackageAdd ==
    /\ Alive
    /\ call.at = "registered"
    /\ \E w \in {processRootPackageAdd(World)} :
           /\ Commit(w)
           /\ pc' = IF Running(w) THEN "running" ELSE "exited"
           /\ last' = Step("start",
                           [path |-> rootPackagePath,
                            type |-> IF rootPackage = None THEN "absent" ELSE "add",
                            cause |-> "external"],
                           rootPackage # None, w)
    /\ call' = [call EXCEPT !.at = "rootAdded"]
    /\ UNCHANGED <<rootPackage, buildInfos, events, edits>>

\* startTSC(): the child is spawned and added to `children`
startTSC ==
    /\ Alive
    /\ call.at = "rootAdded"
    /\ call' = [call EXCEPT !.at = "tscStarted",
                            !.children = @ \cup {"tsc"},
                            !.spawned = @ \cup {"tsc"}]
    /\ SignalFrame

\* startWatcher(): watcher.subscribe is called, its promise is pending
startWatcher ==
    /\ Alive
    /\ call.at = "tscStarted"
    /\ call' = [call EXCEPT !.at = "subscribing", !.subscribed = TRUE]
    /\ SignalFrame

\* watcherSubscription = await startWatcher(): the promise resolved
WatcherAssigned ==
    /\ Alive
    /\ call.at = "subscribing"
    /\ call' = [call EXCEPT !.at = "watching", !.watcherSubscription = "subscription"]
    /\ SignalFrame

\* SIGINT is delivered: the handler runs up to its await, or throws
Sigint ==
    /\ Alive
    /\ Len(call.handlers) < MaxSignals
    /\ IF call.watcherSubscription = "undefined"
       THEN /\ call' = [call EXCEPT !.handlers =
                           Append(@, [state |-> "rejected", left |-> call.children])]
            /\ pc' \in {pc, "exited"}
            /\ UNCHANGED <<engineVars, fileVars, events, edits, last>>
       ELSE /\ call' = [call EXCEPT !.handlers =
                           Append(@, [state |-> "unsubscribing", left |-> call.children]),
                                    !.subscribed = FALSE,
                                    !.log = Append(@, "unsubscribe")]
            /\ SignalFrame

\* stopAllChildren(), once unsubscribe() resolved
stopAllChildren ==
    /\ Alive
    /\ \E h \in 1..Len(call.handlers) :
          /\ call.handlers[h].state = "unsubscribing"
          /\ call' = [call EXCEPT !.handlers[h] = [state |-> "done", left |-> {}],
                                  !.killed = @ \cup call.children,
                                  !.children = {},
                                  !.log = @ \o (IF call.children = {} THEN <<>> ELSE <<"kill">>)]
    /\ SignalFrame

SignalNext ==
    \/ WatchRootPackageAdd
    \/ startTSC
    \/ startWatcher
    \/ WatcherAssigned
    \/ Sigint
    \/ stopAllChildren

SpecSignal == SignalInit /\ [][SignalNext]_vars

-----------------------------------------------------------------------------
(* The doctor command (doctor.ts).  A workspace directory is given by what  *)
(* the checks read of it: its manifest (absent or unparsable, or with its   *)
(* name, "" for none), what readTSConfig and isCompilerOptionsSatisfactory  *)
(* make of its tsconfig, and what the two globs find in it.  `call` holds   *)
(* the flags, the project, the reports made so far and the exit code.       *)

\* the number of directories the workspaces of the root manifest match
MaxWorkspaces == 2

TSConfigFindings == {"absent", "unsatisfactory", "ok"}

\* a directory without any file has neither manifest nor tsconfig
WorkspaceDirs(path) ==
    {[path |-> path, pkg |-> None, tsConfig |-> "absent", files |-> "none"]}
    \cup {[path |-> path, pkg |-> pkg, tsConfig |-> tsConfig, files |-> files] :
            pkg \in {None, Some(""), Some("a"), Some("b")},
            tsConfig \in TSConfigFindings, files \in {"other", "ts"}}

\* the matched directories in the order of the glob
Matched(paths) ==
    LET order == SetToSeq(paths)
    IN  {dirs \in [1..Len(order) -> UNION {WorkspaceDirs(p) : p \in paths}] :
            \A i \in 1..Len(order) : dirs[i].path = order[i]}

DoctorProjects ==
    {[rootPackage |-> "workspaces", workspaces |-> dirs, rootTSConfig |-> finding] :
        dirs \in UNION {Matched(paths) :
                           paths \in {S \in SUBSET Paths : Cardinality(S) <= MaxWorkspaces}},
        finding \in TSConfigFindings}
    \cup {[rootPackage |-> root, workspaces |-> <<>>, rootTSConfig |-> "absent"] :
            root \in {"missing", "noWorkspaces"}}

DoctorInit ==
    /\ StateInit
    /\ NoProject
    /\ \E fix \in BOOLEAN, doDelete \in BOOLEAN, project \in DoctorProjects :
          call = [op |-> "doctor", at |-> "checkRootPackage", fix |-> fix,
                  doDelete |-> doDelete, project |-> project, reports |-> <<>>,
                  rootReport |-> <<>>, exit |-> None]

DoctorFrame == UNCHANGED <<engineVars, fileVars, processVars>>

DoctorExit(code) == [call EXCEPT !.at = "exited", !.exit = Some(code)]

\* checkRootPackage: process.exit(1) without a readable root manifest or
\* without its workspaces field
checkRootPackage ==
    /\ call.op = "doctor"
    /\ call.at = "checkRootPackage"
    /\ call' = IF call.project.rootPackage = "workspaces"
               THEN [call EXCEPT !.at = "checkWorkspaces"]
               ELSE DoctorExit(1)
    /\ DoctorFrame

FixOrFail(fix) == IF fix THEN "fixed" ELSE "fail"

\* checkWorkspace(workspacePath): the report of one directory
checkWorkspace(dir, fix, doDelete) ==
    IF dir.tsConfig = "absent" /\ dir.files = "none" /\ dir.pkg = None
    THEN IF fix /\ doDelete
         THEN [path |-> dir.path, name |-> "", redundant |-> FALSE, checks |-> <<"fixed">>]
         ELSE [path |-> dir.path, name |-> "", redundant |-> TRUE, checks |-> <<>>]
    ELSE LET generated == IF fix /\ (dir.pkg = None \/ dir.pkg = Some(""))
                          THEN Basename[dir.path] ELSE ""
             packageChecks ==
                 IF dir.pkg = None THEN <<FixOrFail(fix)>>
                 ELSE <<"ok">> \o (IF Val(dir.pkg) = "" THEN <<FixOrFail(fix)>> ELSE <<>>)
             tsConfigChecks ==
                 IF dir.files # "ts" THEN <<"info">>
                 ELSE IF dir.tsConfig = "ok" THEN <<"ok">> ELSE <<FixOrFail(fix)>>
         IN  [path |-> dir.path,
              name |-> IF generated # "" THEN generated
                       ELSE IF dir.pkg = None THEN "" ELSE Val(dir.pkg),
              redundant |-> FALSE,
              checks |-> packageChecks \o tsConfigChecks]

\* Promise.all(workspacePaths.map(checkWorkspace)): the reports in the order
\* of the paths; no workspace at all is process.exit(1)
DoctorCheckWorkspace ==
    /\ call.op = "doctor"
    /\ call.at = "checkWorkspaces"
    /\ call' = IF call.project.workspaces = <<>> THEN DoctorExit(1)
               ELSE LET n == Len(call.reports) + 1
                        report == checkWorkspace(call.project.workspaces[n], call.fix,
                                                 call.doDelete)
                    IN  [call EXCEPT !.reports = Append(@, report),
                                     !.at = IF n = Len(call.project.workspaces)
                                            THEN "report" ELSE "checkWorkspaces"]
    /\ DoctorFrame

\* findNameDuplicates: the names that more than one report has
findNameDuplicates(reports) ==
    {reports[i].name : i \in {k \in 1..Len(reports) :
        /\ reports[k].name # ""
        /\ \E j \in 1..Len(reports) : j # k /\ reports[j].name = reports[k].name}}

\* checkRootTSConfig
checkRootTSConfig(finding, fix) ==
    <<"ok">> \o (IF finding = "ok" THEN <<"ok">> ELSE <<FixOrFail(fix)>>)

anyIssues(rootReport, reports) ==
    \/ Includes(rootReport, "fail")
    \/ \E i \in 1..Len(reports) : Includes(reports[i].checks, "fail")

\* the rest of checkWorkspacesWithRootTSConfig, from the reports to the exit
DoctorReport ==
    /\ call.op = "doctor"
    /\ call.at = "report"
    /\ call' =
          IF call.fix /\ \E i \in 1..Len(call.reports) :
                            call.reports[i].name = "" /\ ~call.reports[i].redundant
          THEN DoctorExit(1)
          ELSE IF findNameDuplicates(call.reports) # {} THEN DoctorExit(1)
          ELSE LET rootReport == checkRootTSConfig(call.project.rootTSConfig, call.fix)
               IN  [DoctorExit(IF ~call.fix /\ ~anyIssues(rootReport, call.reports) THEN 0
                               ELSE IF call.fix THEN 0 ELSE 1)
                    EXCEPT !.rootReport = rootReport]
    /\ DoctorFrame

DoctorNext == checkRootPackage \/ DoctorCheckWorkspace \/ DoctorReport

SpecDoctor == DoctorInit /\ [][DoctorNext]_vars

-----------------------------------------------------------------------------
(* Utils.withRetry on its own: one call, `fn` resolving or rejecting at each *)
(* invocation as it pleases                                                  *)

MaxRetriesBound == 4
BaseDelays == {1, 10}
Documents == {"d1", "d2", "d3"}

\* baseDelay * Math.pow(1.6, attempt), as <<numerator, denominator>>
delayTime(baseDelay, attempt) == <<baseDelay * 16 ^ attempt, 10 ^ attempt>>

RetryInit ==
    /\ StateInit
    /\ NoProject
    /\ \E maxRetries \in 0..MaxRetriesBound, baseDelay \in BaseDelays :
          call = [op |-> "withRetry", maxRetries |-> maxRetries,
                  baseDelay |-> baseDelay, attempt |-> 0, outcomes |-> <<>>,
                  delays |-> <<>>, status |-> "running", result |-> None]

\* the catch block with only maxRetries - 1 retries
withRetryCatch_OneRetryLess(c) ==
    IF c.attempt + 1 >= c.maxRetries
    THEN [c EXCEPT !.status = "thrown"]
    ELSE [c EXCEPT !.delays = Append(@, delayTime(c.baseDelay, c.attempt)),
                   !.attempt = @ + 1]

\* catch (error) { if (attempt >= maxRetries) throw error; delay; attempt++ }
withRetryCatch(c) ==
    IF c.attempt >= c.maxRetries
    THEN [c EXCEPT !.status = "thrown"]
    ELSE [c EXCEPT !.delays = Append(@, delayTime(c.baseDelay, c.attempt)),
                   !.attempt = @ + 1]

\* return await fn(), fn resolving
InvokeResolves ==
    /\ call.op = "withRetry"
    /\ call.status = "running"
    /\ \E document \in Documents :
          call' = [call EXCEPT !.outcomes = Append(@, Some(document)),
                               !.status = "returned",
                               !.result = Some(document)]
    /\ UNCHANGED <<engineVars, fileVars, processVars>>

\* await fn(), fn rejecting
InvokeRejects ==
    /\ call.op = "withRetry"
    /\ call.status = "running"
    /\ call' = withRetryCatch([call EXCEPT !.outcomes = Append(@, None)])
    /\ UNCHANGED <<engineVars, fileVars, processVars>>

RetryNext == InvokeResolves \/ InvokeRejects

SpecRetry == RetryInit /\ [][RetryNext]_vars

Invocations == Len(call.outcomes)
\* the invocations before the last all failed
FailedBeforeLast == \A i \in 1..(Invocations - 1) : call.outcomes[i] = None

\* withRetry returns what the first successful invocation of fn returned
ReturnsFirstSuccess ==
    call.status = "returned" =>
        /\ Invocations >= 1
        /\ FailedBeforeLast
        /\ call.outcomes[Invocations] # None
        /\ call.result = call.outcomes[Invocations]

\* C17 as stated: withRetry(fn, maxAttempts, baseDelay) returns the result of
\* the first successful invocation of fn, fails only after exactly
\* maxAttempts failed invocations in a row, and never invokes fn more than
\* maxAttempts times
C17_FailsAfterMaxAttempts ==
    call.op = "withRetry" =>
        /\ ReturnsFirstSuccess
        /\ call.status = "thrown" =>
              /\ Invocations = call.maxRetries
              /\ \A i \in 1..Invocations : call.outcomes[i] = None
        /\ Invocations <= call.maxRetries

\* C17 with the count the loop has: withRetry(fn, maxRetries, baseDelay)
\* returns the result of the first successful invocation of fn, fails only
\* after exactly maxRetries + 1 failed invocations in a row (the first try
\* and maxRetries retries), and never invokes fn more than maxRetries + 1
\* times
C17_FailsAfterMaxRetriesPlusOne ==
    call.op = "withRetry" =>
        /\ ReturnsFirstSuccess
        /\ call.status = "thrown" =>
              /\ Invocations = call.maxRetries + 1
              /\ \A i \in 1..Invocations : call.outcomes[i] = None
        /\ Invocations <= call.maxRetries + 1
        /\ call.status = "running" => Invocations <= call.maxRetries

\* a call that failed after its retries, each after a longer delay
C17_Witness ==
    /\ call.op = "withRetry"
    /\ call.status = "thrown"
    /\ call.maxRetries >= 2
    /\ Len(call.delays) = call.maxRetries

-----------------------------------------------------------------------------
(* BuildInfo.getBuildInfoDependencies on its own: one build info file as    *)
(* TypeScript writes it, [fileNames, referencedMap, fileIdsList], and a     *)
(* fixed registry.  The JavaScript index i of fileNames and of fileIdsList  *)
(* is the position i + 1 of the sequence.  A path is held as its segments   *)
(* where the code resolves it, and as a string where the code compares it.  *)

MaxFiles == 2
MaxRefs == 1

\* the workspace directories of the registry, and a directory that is none
DecodeDirs == {<<"packages", "a">>, <<"packages", "a", "dep">>, <<"packages", "b">>}
DecodeNames == <<<<"packages/a", "a">>, <<"packages/a/dep", "dep">>, <<"packages/b", "b">>>>

\* the workspaces whose build info is decoded
DecodedDirs == {<<"packages", "a">>, <<"packages", "b">>}

\* fileNames entries, relative to the directory of the build info
FileNamePool ==
    << <<"a.ts">>, <<"..", "dep", "b.ts">>, <<"..", "..", "b", "index.ts">>,
       <<"..", "..", "ab", "x.ts">>, <<"..", "..", "..", "node_modules", "t", "lib.d.ts">> >>

RECURSIVE JoinPath(_)
\* the segments of a path, joined with "/"
JoinPath(segs) ==
    IF segs = <<>> THEN ""
    ELSE IF Len(segs) = 1 THEN segs[1]
    ELSE segs[1] \o "/" \o JoinPath(Tail(segs))

RECURSIVE resolve(_, _)
\* path.resolve(base, name), both below the root
resolve(base, name) ==
    IF name = <<>> THEN base
    ELSE IF Head(name) = ".."
    THEN resolve(IF base = <<>> THEN base ELSE SubSeq(base, 1, Len(base) - 1), Tail(name))
    ELSE resolve(Append(base, Head(name)), Tail(name))

dirname(path) == SubSeq(path, 1, Len(path) - 1)

\* relative(State.root, resolve(workspacePath, ".ts/tsconfig.tsbuildinfo"))
BuildInfoPathOf(workspaceDir) == resolve(workspaceDir, <<".ts", "tsconfig.tsbuildinfo">>)

\* buildInfoPathToWorkspacePath on segments:
\* relative(State.root, resolve(dirname(buildInfoPath), ".."))
WorkspaceDirOf(buildInfoPath) == resolve(dirname(buildInfoPath), <<"..">>)

\* relative(State.root, resolve(dirname(buildInfoPath), fileName))
buildInfoFileToWorkspaceFile(buildInfoPath, fileName) ==
    JoinPath(resolve(dirname(buildInfoPath), fileName))

\* /^(?!.*(?:\.\.\/\.\.\/|\.\.\/node_modules))/.test(fileName)
localBuildInfoFileRE(fileName) ==
    ~\E i \in 1..(Len(fileName) - 1) :
        fileName[i] = ".." /\ fileName[i + 1] \in {"..", "node_modules"}

buildInfoListIdToIndex(id) == id - 1
buildInfoFileIndexToId(index) == index + 1
\* an id taken for the index
buildInfoFileIdToIndex_Same(id) == id
buildInfoFileIdToIndex(id) == id - 1

\* buildInfo.program.fileNames[index], undefined as None
FileNameAt(buildInfo, index) ==
    IF index + 1 \in 1..Len(buildInfo.fileNames)
    THEN Some(buildInfo.fileNames[index + 1]) ELSE None

\* buildInfo.program.fileIdsList?.[listIndex], undefined as None
FileIdsListAt(buildInfo, listIndex) ==
    IF listIndex + 1 \in 1..Len(buildInfo.fileIdsList)
    THEN Some(buildInfo.fileIdsList[listIndex + 1]) ELSE None

RECURSIVE SetAddAll(_, _)
\* items.forEach((item) => set.add(item)), a Set in insertion order
SetAddAll(set, items) ==
    IF items = <<>> THEN set
    ELSE SetAddAll(IF Includes(set, Head(items)) THEN set ELSE Append(set, Head(items)),
                   Tail(items))

RECURSIVE LocalIndicesFrom(_, _)
LocalIndicesFrom(buildInfo, index) ==
    IF FileNameAt(buildInfo, index) = None THEN <<>>
    ELSE (IF localBuildInfoFileRE(Val(FileNameAt(buildInfo, index))) THEN <<index>> ELSE <<>>)
         \o LocalIndicesFrom(buildInfo, index + 1)

\* the indices of Object.entries(fileNames) whose name passes the expression
getLocalBuildInfoFileIndices(buildInfo) == LocalIndicesFrom(buildInfo, 0)

RECURSIVE ListIdsOf(_, _)
ListIdsOf(referencedMap, fileId) ==
    IF referencedMap = <<>> THEN <<>>
    ELSE (IF Head(referencedMap)[1] = fileId THEN <<Head(referencedMap)[2]>> ELSE <<>>)
         \o ListIdsOf(Tail(referencedMap), fileId)

\* referencedMap.filter(([refFileId]) => refFileId === fileId).map(listId)
getBuildInfoListIds(fileIndex, buildInfo) ==
    ListIdsOf(buildInfo.referencedMap, buildInfoFileIndexToId(fileIndex))

RECURSIVE ListsFileIds(_, _, _)
ListsFileIds(listIds, buildInfo, fileIds) ==
    IF listIds = <<>> THEN fileIds
    ELSE LET listFileIds == FileIdsListAt(buildInfo, buildInfoListIdToIndex(Head(listIds)))
         IN  ListsFileIds(Tail(listIds), buildInfo,
                 IF listFileIds = None THEN fileIds ELSE SetAddAll(fileIds, Val(listFileIds)))

getBuildInfoListsFileIds(listIds, buildInfo) == ListsFileIds(listIds, buildInfo, <<>>)

RECURSIVE getBuildInfoFileNames(_, _)
\* fileIds.map((fileId) => fileNames[buildInfoFileIdToIndex(fileId)]).filter((f) => !!f)
getBuildInfoFileNames(fileIds, buildInfo) ==
    IF fileIds = <<>> THEN <<>>
    ELSE LET f == FileNameAt(buildInfo, buildInfoFileIdToIndex(Head(fileIds)))
         IN  (IF f = None THEN <<>> ELSE <<Val(f)>>)
             \o getBuildInfoFileNames(Tail(fileIds), buildInfo)

RECURSIVE AllFileNames(_, _, _)
\* for (const index of indices) { ...; fileNames.forEach(allFileNames.add) }
AllFileNames(indices, buildInfo, allFileNames) ==
    IF indices = <<>> THEN allFileNames
    ELSE AllFileNames(Tail(indices), buildInfo,
             SetAddAll(allFileNames,
                 getBuildInfoFileNames(
                     getBuildInfoListsFileIds(getBuildInfoListIds(Head(indices), buildInfo),
                                              buildInfo),
                     buildInfo)))

RECURSIVE WorkspaceFiles(_, _)
WorkspaceFiles(buildInfoPath, fileNames) ==
    IF fileNames = <<>> THEN <<>>
    ELSE <<buildInfoFileToWorkspaceFile(buildInfoPath, Head(fileNames))>>
         \o WorkspaceFiles(buildInfoPath, Tail(fileNames))

\* getBuildInfoDependencies after the read: `names` is State.workspaceNames,
\* `watched` the watched workspace paths in the order of their iteration
decodeBuildInfo(names, watched, buildInfoPath, buildInfo) ==
    LET workspacePath == JoinPath(WorkspaceDirOf(buildInfoPath))
        allFileNames == AllFileNames(getLocalBuildInfoFileIndices(buildInfo), buildInfo, <<>>)
    IN  IF ~HasWorkspaceName(names, workspacePath)
        THEN [allFileNames |-> <<>>, deps |-> <<>>, exit |-> TRUE]
        ELSE LET r == DecodeFiles(names, watched, getWorkspaceName(names, workspacePath),
                                  WorkspaceFiles(buildInfoPath, allFileNames), <<>>)
             IN  [allFileNames |-> allFileNames, deps |-> r.deps, exit |-> r.exit]

\* the sub-sequences of the pool, of a length up to MaxFiles
FileNamesChoices ==
    {Filter(FileNamePool, S) : S \in {T \in SUBSET Range(FileNamePool) : Cardinality(T) <= MaxFiles}}

BuildInfoChoices ==
    [fileNames : FileNamesChoices,
     referencedMap : SeqsUpTo((1..MaxFiles) \X (1..MaxRefs), MaxRefs),
     fileIdsList : SeqsUpTo(SeqsUpTo(1..MaxFiles, MaxRefs), MaxRefs)]

\* the watched workspaces, in each order of the watchlist
WatchedChoices == {s \in SeqsUpTo(DecodeDirs, 2) : s # <<>>}

RECURSIVE JoinPaths(_)
JoinPaths(dirs) ==
    IF dirs = <<>> THEN <<>> ELSE <<JoinPath(Head(dirs))>> \o JoinPaths(Tail(dirs))

DecodeInit ==
    /\ StateInit
    /\ NoProject
    /\ \E buildInfo \in BuildInfoChoices, watched \in WatchedChoices :
       \E workspaceDir \in Range(watched) \cap DecodedDirs :
          call = [op |-> "getBuildInfoDependencies", names |-> DecodeNames,
                  watched |-> watched, workspaceDir |-> workspaceDir,
                  buildInfo |-> buildInfo, status |-> "running",
                  allFileNames |-> <<>>, result |-> <<>>]

Decode ==
    /\ call.op = "getBuildInfoDependencies"
    /\ call.status = "running"
    /\ LET r == decodeBuildInfo(call.names, JoinPaths(call.watched),
                                BuildInfoPathOf(call.workspaceDir), call.buildInfo)
       IN  call' = [call EXCEPT !.status = IF r.exit THEN "exit" ELSE "returned",
                                !.allFileNames = r.allFileNames, !.result = r.deps]
    /\ UNCHANGED <<workspaceRequirements, watching, workspaceNames, workspaceDependencies,
                   missingBuildInfos, commandsReported, workspacePackagesWatchlist,
                   buildInfoWatchlist, rootPackage, packages, tsconfigs, rootTSConfig,
                   buildInfos, pc, events, edits, last>>

DecodeNext == Decode

SpecDecode == DecodeInit /\ [][DecodeNext]_vars

-----------------------------------------------------------------------------
(* The registry and the rename of a workspace *)

Registered == Range(MapKeys(workspaceNames))
RegisteredNames == Range(MapValues(workspaceNames))

\* C1: in every reachable state of the registry no two registered paths map
\* to the same name: looking up the path of the name of a registered path
\* gives that path back, and the name of the path of a registered name is
\* that name
C1_NamePathBijection ==
    /\ \A p \in Registered :
          getWorkspacePath(workspaceNames, getWorkspaceName(workspaceNames, p)) = p
    /\ \A n \in RegisteredNames :
          getWorkspaceName(workspaceNames, getWorkspacePath(workspaceNames, n)) = n

\* the last step was the handler of a manifest update that renamed a
\* workspace, run to its end
RenameHandled ==
    /\ last.op = "dispatch"
    /\ last.exit = "no"
    /\ last.renamed # <<>>
PrevName == last.renamed[1]
NewName == last.renamed[2]
\* the other registered workspaces whose stored dependencies held the name
RenameDependents == last.renamed[3]
RenamedPath == packagePathToWorkspacePath(last.event.path)

HasKey(field, key) == IsSome(field) /\ MapHas(Val(field), key)

\* C2: after the handler of a manifest update that changes a workspace's name
\* from A to A' completes, every other registered workspace whose stored
\* dependency list contained A has A' as a dependency key in its manifest and
\* A as a key of neither dependencies nor devDependencies
C2_RenameUpdatesManifests ==
    RenameHandled =>
        \A d \in RenameDependents :
            /\ packages[d] # None
            /\ \/ HasKey(Val(packages[d]).dependencies, NewName)
               \/ HasKey(Val(packages[d]).devDependencies, NewName)
            /\ ~HasKey(Val(packages[d]).dependencies, PrevName)
            /\ ~HasKey(Val(packages[d]).devDependencies, PrevName)

\* C3: after a rename A -> A' has been propagated, the alias table of every
\* dependent workspace's config holds the alias A' and the wildcard A'/*,
\* both pointing at the directory of the renamed workspace, and holds neither
\* A nor A/*
C3_RenameUpdatesAliases ==
    RenameHandled =>
        \A d \in RenameDependents :
            /\ tsconfigs[d] # None
            /\ LET aliases == AliasesOf(Val(tsconfigs[d]))
                   referencePath == getReferencePath(RenamedPath, Some(d))
               IN  /\ MapHas(aliases, NewName)
                   /\ MapGet(aliases, NewName) =
                          <<referencePathToAliasResolve(referencePath)>>
                   /\ MapHas(aliases, pathAliasToGlob(NewName))
                   /\ MapGet(aliases, pathAliasToGlob(NewName)) =
                          <<referencePathToAliashResolveGlob(referencePath)>>
                   /\ ~MapHas(aliases, PrevName)
                   /\ ~MapHas(aliases, pathAliasToGlob(PrevName))

-----------------------------------------------------------------------------
(* Events the engine causes itself *)

\* the last step handled the update of a manifest the engine wrote
OwnManifestUpdateHandled ==
    /\ last.op = "dispatch"
    /\ last.event.cause = "engine"

\* the last step handled the update of a build info rebuilt after the engine
\* wrote the config, and decoded the dependencies the registry had stored
OwnBuildInfoUpdateHandled ==
    /\ last.op = "dispatch"
    /\ last.event.cause = "tsc"
    /\ last.decoded # <<>>
    /\ Range(last.decoded[1]) = Range(last.decoded[2])

\* C9: an event caused by the engine's own write is a no-op on re-entry: the
\* handler of the update of a manifest the engine wrote, and the handler of
\* the update of a build info whose decoded dependencies are the stored ones,
\* write no file
C9_SelfEventsWriteNothing ==
    (OwnManifestUpdateHandled \/ OwnBuildInfoUpdateHandled) => last.wrote = {}

\* the second half of C9: after the finitely many changes from outside the
\* engine comes to rest, in the end no event is pending
EventsComeToRest == <>[](events = <<>>)

-----------------------------------------------------------------------------
(* The root manifest *)

\* the last step was watch() finding the root manifest, or the handler of
\* the create event of the root manifest, and the process goes on
RootPackageCreated ==
    /\ pc = "running"
    /\ last.op \in {"start", "dispatch"}
    /\ last.event.path = rootPackagePath
    /\ last.event.type \in {"add", "create"}

\* C10: after the root manifest is created (the create event after a delete,
\* or the add at start-up with the manifest there) the engine is active: the
\* router hands the events of watched manifests and build infos to their
\* handlers
C10_ActiveAfterRootCreate ==
    RootPackageCreated => watching

\* the last step was the handler of the delete event of the root manifest
RootPackageDeleteHandled ==
    /\ last.op = "dispatch"
    /\ last.event.path = rootPackagePath
    /\ last.event.type = "delete"

\* C11: right after the handler of the root manifest's delete the readiness
\* map, the name map, the dependency map, the set of missing build infos,
\* the set of reported commands and both watchlists are empty, and the
\* engine is paused
C11_DeleteClearsEverything ==
    RootPackageDeleteHandled =>
        /\ \A p \in Paths : workspaceRequirements[p] = 0
        /\ workspaceNames = <<>>
        /\ workspaceDependencies = <<>>
        /\ missingBuildInfos = {}
        /\ commandsReported = {}
        /\ workspacePackagesWatchlist = {}
        /\ buildInfoWatchlist = {}
        /\ ~watching

\* the delete was handled by an engine that had configured the project
\* before, after another change from outside
C11_Witness ==
    /\ RootPackageDeleteHandled
    /\ rootTSConfig # None
    /\ ~watching
    /\ edits >= 2

\* the last step was the handler of the update event of the root manifest,
\* run to its end
RootPackageUpdateHandled ==
    /\ last.op = "dispatch"
    /\ last.event.path = rootPackagePath
    /\ last.event.type = "update"
    /\ last.exit = "no"
    /\ rootPackage # None

\* the workspaces the globs of the root manifest match
GlobMatched == workspacesFromPackage(Val(rootPackage))

\* the workspace has no name and no watched file, and every dependency entry
\* is that of a workspace still registered
Unregistered(p) ==
    /\ ~HasWorkspaceName(workspaceNames, p)
    /\ \A n \in Range(MapKeys(workspaceDependencies)) :
          HasWorkspacePath(workspaceNames, n)
    /\ getWorkspacePackagePath(p) \notin workspacePackagesWatchlist
    /\ getBuildInfoPath(p) \notin buildInfoWatchlist

\* C12, first half: after the handler of the root manifest's update every
\* workspace outside the new glob result has no name entry, no dependency
\* entry and neither its manifest nor its build info in a watchlist
RemovedWorkspacesUnregistered ==
    RootPackageUpdateHandled => \A p \in Paths \ GlobMatched : Unregistered(p)

\* C12, second half: after the handler of the root manifest's update the
\* watched workspaces are the glob-matched workspaces with all three
\* readiness bits
WatchedAreMatching ==
    RootPackageUpdateHandled =>
        getWatchedWorkspacePaths(workspacePackagesWatchlist) =
            matchingWorkspaces(workspaceRequirements, GlobMatched)

\* C12: after the handler of the root manifest's update completes, every
\* workspace that fell outside the new glob result has no name entry, no
\* dependency entry and no file in a watchlist, and the watched workspaces
\* are exactly the glob-matched workspaces with all three readiness bits
C12_UpdateResyncsWatchlist ==
    RemovedWorkspacesUnregistered /\ WatchedAreMatching

\* the last step was watch() finding the root manifest or the handler of its
\* create event, run to its end
RootPackageCreateHandled ==
    /\ last.op \in {"start", "dispatch"}
    /\ last.event.path = rootPackagePath
    /\ last.event.type \in {"add", "create"}
    /\ last.exit = "no"
    /\ rootPackage # None

\* the workspaces the globs match that have all three readiness bits
Matching == matchingWorkspaces(workspaceRequirements, GlobMatched)

\* the root config has the canonical defaults and one reference for each
\* matching workspace
RootTSConfigCanonical ==
    /\ rootTSConfig # None
    /\ Val(rootTSConfig).files = "empty"
    /\ ~Val(rootTSConfig).include
    /\ ~Val(rootTSConfig).exclude
    /\ IsSome(Val(rootTSConfig).references)
    /\ LET references == Val(Val(rootTSConfig).references)
       IN  /\ Range(references) = {getReferencePath(p, None) : p \in Matching}
           /\ Len(references) = Cardinality(Matching)

\* the create half of C13
RootConfiguredAfterCreate == RootPackageCreateHandled => RootTSConfigCanonical

\* C13: after the handler of the root manifest's create or of its update
\* completes, the root config has an empty files list, no include and no
\* exclude, and its references hold exactly one entry for each workspace
\* that matches now
C13_RootConfigCanonical ==
    (RootPackageCreateHandled \/ RootPackageUpdateHandled) => RootTSConfigCanonical

\* the last step was the handler of the delete event of a watched manifest
WorkspacePackageDeleteHandled ==
    /\ last.op = "dispatch"
    /\ last.handled
    /\ last.event.type = "delete"
    /\ last.event.path \in {getWorkspacePackagePath(p) : p \in Paths}

\* C14: when the manifest of a watched workspace is deleted the workspace
\* goes back to unseen: its Package readiness bit is cleared, so that it is
\* left out of the synchronization until the manifest is there again
C14_DeletedManifestUnseen ==
    WorkspacePackageDeleteHandled =>
        LET workspacePath == packagePathToWorkspacePath(last.event.path)
        IN  /\ ~hasRequirement(workspaceRequirements, workspacePath, Requirement_Package)
            /\ workspacePath \notin
                   matchingWorkspaces(workspaceRequirements, Paths)

\* the workspace is under active synchronization: one of its files is on a
\* watchlist
Synchronized(p) ==
    \/ getWorkspacePackagePath(p) \in workspacePackagesWatchlist
    \/ getBuildInfoPath(p) \in buildInfoWatchlist

\* C15: in every reachable state every workspace under active
\* synchronization has all three readiness bits: manifest, name and config
C15_SynchronizedAreReady ==
    \A p \in Paths : Synchronized(p) => hasAllRequirements(workspaceRequirements, p)

BuildInfoPaths == {getBuildInfoPath(p) : p \in Paths}

\* the build info at the path cannot be read or parsed, whatever the retries
Unreadable(buildInfoPath) ==
    LET workspacePath == buildInfoPathToWorkspacePath(buildInfoPath)
    IN  buildInfos[workspacePath] = None \/ Val(buildInfos[workspacePath]).torn

\* the oldest pending event is the create or update of a watched build info
\* of a named workspace, which the router hands to processBuildInfoWrite,
\* and the build info is unreadable
UnreadableBuildInfoPending ==
    /\ pc = "running"
    /\ events # <<>>
    /\ watching
    /\ Head(events).path \in BuildInfoPaths
    /\ Head(events).path \in buildInfoWatchlist
    /\ Head(events).type \in {"create", "update"}
    /\ HasWorkspaceName(workspaceNames,
                        buildInfoPathToWorkspacePath(Head(events).path))
    /\ Unreadable(Head(events).path)

\* C16: when the decoding of a build info still fails after the retries, the
\* handler returns and the process goes on, the stored dependencies are as
\* they were and neither the manifest nor the config is written; nothing the
\* next event of the path is handled with has changed
C16_FailedDecodeDefers ==
    [][UnreadableBuildInfoPending =>
          /\ pc' = "running"
          /\ last'.handled
          /\ last'.wrote = {}
          /\ workspaceDependencies' = workspaceDependencies
          /\ UNCHANGED <<workspaceRequirements, watching, workspaceNames,
                         commandsReported, workspacePackagesWatchlist,
                         buildInfoWatchlist, packages, tsconfigs, rootTSConfig>>]_vars

\* the update of a torn build info of a workspace with stored dependencies
\* has been handled
C16_Witness ==
    /\ pc = "running"
    /\ last.op = "dispatch"
    /\ last.handled
    /\ last.event.path = getBuildInfoPath("packages/b")
    /\ last.event.type = "update"
    /\ Unreadable(last.event.path)
    /\ HasWorkspaceName(workspaceNames, "packages/b")
    /\ getWorkspaceDependencies(workspaceDependencies,
                                getWorkspaceName(workspaceNames, "packages/b")) # <<>>

-----------------------------------------------------------------------------
(* The decoding of a build info *)

Decoded == call.op = "getBuildInfoDependencies" /\ call.status = "returned"

\* position i + 1 of fileNames holds a local file, referencedMap pairs the
\* file id i + 1 with the list id L, entry L - 1 of fileIdsList holds the
\* file id f, and index f - 1 of fileNames holds a name
ReferencedBy(buildInfo, i, f) ==
    /\ i + 1 \in 1..Len(buildInfo.fileNames)
    /\ localBuildInfoFileRE(buildInfo.fileNames[i + 1])
    /\ f \in 1..Len(buildInfo.fileNames)
    /\ \E k \in 1..Len(buildInfo.referencedMap) :
          /\ buildInfo.referencedMap[k][1] = i + 1
          /\ LET L == buildInfo.referencedMap[k][2]
             IN  /\ L \in 1..Len(buildInfo.fileIdsList)
                 /\ \E m \in 1..Len(buildInfo.fileIdsList[L]) : buildInfo.fileIdsList[L][m] = f

ReferencedFileNames(buildInfo) ==
    {buildInfo.fileNames[f] : f \in {g \in 1..Len(buildInfo.fileNames) :
                                       \E i \in 0..(Len(buildInfo.fileNames) - 1) :
                                           ReferencedBy(buildInfo, i, g)}}

\* the file named `fileName` by the build info of the workspace lies in the
\* directory `dir`
LiesIn(fileName, workspaceDir, dir) ==
    LET file == resolve(dirname(BuildInfoPathOf(workspaceDir)), fileName)
    IN  Len(file) > Len(dir) /\ SubSeq(file, 1, Len(dir)) = dir

\* fileNames {0: "a.ts", 1: second}, referencedMap [[1, 1]], fileIdsList {0: [2]}
ExampleBuildInfo(second) ==
    [fileNames |-> << <<"a.ts">>, second >>, referencedMap |-> << <<1, 1>> >>,
     fileIdsList |-> << <<2>> >>]

\* the example of a build info whose second file is "../dep/b.ts", decoded
\* for the workspace packages/a
ExampleDecoded ==
    /\ Decoded
    /\ call.workspaceDir = <<"packages", "a">>
    /\ call.buildInfo = ExampleBuildInfo(<<"..", "dep", "b.ts">>)

\* the same with the second file "../../b/index.ts", packages/b watched
SiblingExampleDecoded ==
    /\ Decoded
    /\ call.workspaceDir = <<"packages", "a">>
    /\ call.buildInfo = ExampleBuildInfo(<<"..", "..", "b", "index.ts">>)
    /\ <<"packages", "b">> \in Range(call.watched)

\* C18 as stated (violated): the decoder collects the file names by the
\* index/id mapping, and the example whose second file is "../dep/b.ts",
\* decoded for the workspace of a.ts, yields the name of a watched workspace
\* in whose directory dep/b.ts lies
C18_ExampleYieldsOwner ==
    /\ Decoded => Range(call.allFileNames) = ReferencedFileNames(call.buildInfo)
    /\ ExampleDecoded =>
          \E d \in Range(call.watched) :
              /\ LiesIn(<<"..", "dep", "b.ts">>, call.workspaceDir, d)
              /\ call.result = <<getWorkspaceName(call.names, JoinPath(d))>>

\* C18 amended: the decoder collects the file names by the index/id mapping;
\* the example's "../dep/b.ts" resolves from the directory of the build info
\* to packages/a/dep/b.ts, inside the decoded workspace itself, and yields
\* nothing unless a watched workspace packages/a/dep comes first under the
\* watched workspaces; with "../../b/index.ts" it yields the name of packages/b
C18_DecoderIndexMapping ==
    /\ Decoded => Range(call.allFileNames) = ReferencedFileNames(call.buildInfo)
    /\ ExampleDecoded =>
          call.result = IF call.watched[1] = <<"packages", "a", "dep">>
                        THEN <<"dep">> ELSE <<>>
    /\ SiblingExampleDecoded => call.result = <<"b">>

\* reached: the example with "../../b/index.ts" decoded to the name of packages/b
C18_Witness == SiblingExampleDecoded /\ call.result = <<"b">>

\* the names of the watched workspaces in whose directory a file lies that
\* the local files of the build info reference
NamesOfReferencedWorkspaces ==
    {getWorkspaceName(call.names, JoinPath(d)) :
        d \in {e \in Range(call.watched) :
                 \E fileName \in ReferencedFileNames(call.buildInfo) :
                     LiesIn(fileName, call.workspaceDir, e)}}

OwnName == getWorkspaceName(call.names, JoinPath(call.workspaceDir))

\* the result holds no name twice, not the name of the decoded workspace,
\* and names of watched workspaces only
ResultIsSetOfOtherWatched ==
    Decoded =>
        /\ NoDuplicates(call.result)
        /\ OwnName \notin Range(call.result)
        /\ \A name \in Range(call.result) :
              \E d \in Range(call.watched) : getWorkspaceName(call.names, JoinPath(d)) = name

\* C19 (violated): the result of the decoder is a duplicate-free list of
\* names of watched workspaces other than the decoded one, and a referenced
\* file that lies in no watched workspace contributes nothing to it and
\* raises no error
C19_OrphansContributeNothing ==
    /\ ResultIsSetOfOtherWatched
    /\ Decoded => Range(call.result) \subseteq NamesOfReferencedWorkspaces
    /\ call.op = "getBuildInfoDependencies" => call.status # "exit"

-----------------------------------------------------------------------------
(* Dependencies added from a build info *)

\* the oldest pending event is an event of the build info of a workspace
BuildInfoEventPending ==
    pc = "running" /\ events # <<>> /\ Head(events).path \in BuildInfoPaths

DependencyKeys(pkg) ==
    IF pkg = None \/ Val(pkg).dependencies = None THEN {}
    ELSE {Val(Val(pkg).dependencies)[i][1] : i \in 1..Len(Val(Val(pkg).dependencies))}

\* in this step the manifest of the workspace gains the dependency d at "*"
Gains(workspacePath, d) ==
    /\ d \notin DependencyKeys(packages[workspacePath])
    /\ d \in DependencyKeys(packages'[workspacePath])
    /\ MapGet(Val(Val(packages'[workspacePath]).dependencies), d) = "*"

\* the build info of the workspace references a file of a watched workspace
\* named d, other than the workspace itself
BuildInfoReports(workspacePath, d) ==
    /\ buildInfos[workspacePath] # None
    /\ ~Val(buildInfos[workspacePath]).torn
    /\ HasWorkspaceName(workspaceNames, workspacePath)
    /\ d # getWorkspaceName(workspaceNames, workspacePath)
    /\ \E i \in 1..Len(Val(buildInfos[workspacePath]).files) :
       \E p \in getWatchedWorkspacePaths(workspacePackagesWatchlist) :
          /\ isFileBelongsToWorkspace(Val(buildInfos[workspacePath]).files[i], p)
          /\ HasWorkspaceName(workspaceNames, p)
          /\ getWorkspaceName(workspaceNames, p) = d

\* d is in the dependencies last recorded for the workspace
LastKnown(workspacePath, d) ==
    /\ HasWorkspaceName(workspaceNames, workspacePath)
    /\ HasWorkspaceDependencies(workspaceDependencies,
                                getWorkspaceName(workspaceNames, workspacePath))
    /\ d \in Range(getWorkspaceDependencies(workspaceDependencies,
                                            getWorkspaceName(workspaceNames, workspacePath)))

\* C20: in the handling of a build info event, a manifest gains a dependency
\* d at "*" only if it is the manifest of the workspace of that build info,
\* the build info reports d, and d is not among the dependencies last
\* recorded for the workspace
C20_GainsOnlyFromOwnBuildInfo ==
    [][BuildInfoEventPending =>
          \A workspacePath \in Paths, d \in Keys :
              Gains(workspacePath, d) =>
                  /\ getBuildInfoPath(workspacePath) = Head(events).path
                  /\ BuildInfoReports(workspacePath, d)
                  /\ ~LastKnown(workspacePath, d)]_vars

\* reached: the update of the build info of packages/a, which references a
\* file of packages/b, has just been handled and packages/a/package.json,
\* written in the step, depends on "b" at "*", which was not recorded before
C20_Witness ==
    /\ last.op = "dispatch"
    /\ last.event.path = getBuildInfoPath("packages/a")
    /\ getWorkspacePackagePath("packages/a") \in last.wrote
    /\ last.decoded = << <<>>, <<"b">> >>
    /\ "b" \in DependencyKeys(packages["packages/a"])
    /\ MapGet(Val(Val(packages["packages/a"]).dependencies), "b") = "*"

-----------------------------------------------------------------------------
(* The deletion and the return of a build info *)

\* the oldest pending event is of the given type, for a watched build info,
\* and the router hands it to its handler
BuildInfoEventRouted(type) ==
    /\ pc = "running"
    /\ events # <<>>
    /\ watching
    /\ Head(events).path \in buildInfoWatchlist
    /\ Head(events).path \notin workspacePackagesWatchlist
    /\ Head(events).path # rootPackagePath
    /\ Head(events).type = type

\* the step adds the path of the event to the missing build infos and
\* changes nothing else of the registry, the watchlists and the files
OnlyMarksMissing ==
    /\ pc' = "running"
    /\ missingBuildInfos' = missingBuildInfos \cup {Head(events).path}
    /\ last'.wrote = {}
    /\ UNCHANGED <<workspaceRequirements, watching, workspaceNames, workspaceDependencies,
                   commandsReported, workspacePackagesWatchlist, buildInfoWatchlist,
                   packages, tsconfigs, rootTSConfig>>

\* the step takes the path of the event out of the missing build infos and,
\* when the build info can be read, records what it decodes to for the
\* workspace
ResumesAndResyncs ==
    LET workspacePath == buildInfoPathToWorkspacePath(Head(events).path)
    IN  /\ pc' = "running"
        /\ missingBuildInfos' = missingBuildInfos \ {Head(events).path}
        /\ ~Unreadable(Head(events).path) =>
              /\ HasWorkspaceName(workspaceNames, workspacePath)
              /\ last'.decoded # <<>>
              /\ getWorkspaceDependencies(workspaceDependencies',
                     getWorkspaceName(workspaceNames, workspacePath)) = last'.decoded[2]

\* C21 (violated): the delete event of a watched build info adds its path to
\* the missing build infos and changes nothing else; the create event of a
\* missing build info takes the path out again and decodes and synchronizes
\* the workspace anew
C21_DeleteOnlyMarksMissing ==
    [][/\ BuildInfoEventRouted("delete") => OnlyMarksMissing
       /\ (BuildInfoEventRouted("create") /\ Head(events).path \in missingBuildInfos)
              => ResumesAndResyncs]_vars

-----------------------------------------------------------------------------
(* Overlapping handlers of one build info *)

StoredHandlers == {h \in Handlers : call.handlers[h].state = "stored"}

\* every handler has been started and has come to its end
RaceFinished ==
    /\ call.op = "processBuildInfoWrite"
    /\ pc = "running"
    /\ \A h \in Handlers : call.handlers[h].state \in {"stored", "thrown"}

\* the place of the handler in the order in which the reads settled for good
SettledAt(h) == CHOOSE i \in 1..Len(call.settled) : call.settled[i] = h

\* the handler, of those that decoded a build info, whose read settled last
LastSettled(h) ==
    /\ h \in StoredHandlers
    /\ \A g \in StoredHandlers : SettledAt(g) <= SettledAt(h)

\* C22: when the handlers of the events of one build info have all finished,
\* the dependencies stored for the workspace are those decoded by the handler
\* whose read settled last, whichever handler was started first
C22_LastReadWins ==
    RaceFinished =>
        \A h \in Handlers :
            LastSettled(h) =>
                getWorkspaceDependencies(workspaceDependencies, call.handlers[h].workspaceName)
                    = Val(call.handlers[h].decoded)

\* reached: the handler of the create event was started first, the handler of
\* the update event second; the read of the second settled first; the two
\* decoded different dependencies, and those of the first are stored
C22_Witness ==
    /\ RaceFinished
    /\ call.settled = <<2, 1>>
    /\ call.handlers[1].type = "create"
    /\ call.handlers[2].type = "update"
    /\ StoredHandlers = {1, 2}
    /\ call.handlers[1].decoded # call.handlers[2].decoded
    /\ getWorkspaceDependencies(workspaceDependencies, "a") = Val(call.handlers[1].decoded)

-----------------------------------------------------------------------------
(* The lookups of the registry *)

\* the key has an entry in the map
HasEntry(map, key) == \E i \in 1..Len(map) : map[i][1] = key
\* the value the map holds for the key
EntryOf(map, key) == map[CHOOSE i \in 1..Len(map) : map[i][1] = key][2]

\* C23: a lookup of a name by path, of a path by name or of the dependencies
\* by name gives what the registry holds when the key is registered, an
\* empty list included, and otherwise ends the process instead of giving a
\* value
C23_LookupsReturnOrExit ==
    /\ call.op = "getWorkspaceName" =>
          IF HasEntry(workspaceNames, call.key)
          THEN ~call.exit /\ call.value = Some(EntryOf(workspaceNames, call.key))
          ELSE call.exit /\ call.value = None
    /\ call.op = "getWorkspacePath" =>
          IF \E i \in 1..Len(workspaceNames) : workspaceNames[i][2] = call.key
          THEN /\ ~call.exit
               /\ call.value # None
               /\ HasEntry(workspaceNames, Val(call.value))
               /\ EntryOf(workspaceNames, Val(call.value)) = call.key
          ELSE call.exit /\ call.value = None
    /\ call.op = "getWorkspaceDependencies" =>
          IF HasEntry(workspaceDependencies, call.key)
          THEN ~call.exit /\ call.value = Some(EntryOf(workspaceDependencies, call.key))
          ELSE call.exit /\ call.value = None

\* reached: the dependencies of a name whose list is empty were looked up and
\* the empty list was returned
C23_Witness ==
    /\ call.op = "getWorkspaceDependencies"
    /\ HasEntry(workspaceDependencies, call.key)
    /\ EntryOf(workspaceDependencies, call.key) = <<>>
    /\ ~call.exit
    /\ call.value = Some(<<>>)

-----------------------------------------------------------------------------
(* The readiness bits *)

\* the last call that named the bit of the path was an addRequirement
LastAdded(path, b) == call.lastCall[path][b] = "addRequirement"

AllAdded(path) == \A b \in RequirementBits : LastAdded(path, b)

\* the call just made changed the named bits of the named path at most
OnlyNamedBitsChanged ==
    call.op \in {"addRequirement", "removeRequirement"} =>
        \A path \in Paths, b \in RequirementBits :
            (path # call.path \/ ~HasBit(call.requirement, b)) =>
                (HasBit(workspaceRequirements[path], b) <=> HasBit(call.before[path], b))

\* C24: after any calls of addRequirement and removeRequirement,
\* hasRequirement holds of a bit of a path exactly when the last call naming
\* it was an add, a call changes the named bits of the named path only,
\* hasAllRequirements holds exactly when the three bits are set, and
\* matchingWorkspaces gives exactly the candidates with all requirements and
\* leaves its argument as it was
C24_RequirementBits ==
    /\ \A path \in Paths, b \in RequirementBits :
          hasRequirement(workspaceRequirements, path, b) <=> LastAdded(path, b)
    /\ OnlyNamedBitsChanged
    /\ \A path \in Paths : hasAllRequirements(workspaceRequirements, path) <=> AllAdded(path)
    /\ call.op = "matchingWorkspaces" =>
          /\ call.result = {path \in call.workspacePaths : AllAdded(path)}
          /\ call.argumentAfter = call.workspacePaths

\* reached: the three bits of packages/a were added in two calls, one bit of
\* it was removed again, and matchingWorkspaces, given packages/a, gave nothing
C24_Witness ==
    /\ call.op = "matchingWorkspaces"
    /\ call.calls = 3
    /\ call.lastCall["packages/a"][Requirement_PackageName] = "removeRequirement"
    /\ LastAdded("packages/a", Requirement_Package)
    /\ LastAdded("packages/a", Requirement_TSConfig)
    /\ "packages/a" \in call.workspacePaths
    /\ call.result = {}

-----------------------------------------------------------------------------
(* The differences of two collections *)

Differenced == call.op \in {"arrays", "sets"}

\* C25 as stated: missing is target - current, redundant is current - target
\* and current with missing is target with (current and target in common)
C25_LawsAsStated ==
    Differenced =>
        /\ call.missing = call.next \ call.actual
        /\ call.redundant = call.actual \ call.next
        /\ call.actual \cup call.missing = call.next \cup (call.actual \cap call.next)

\* C25: the missing items are target - current, the redundant items are
\* current - target, current with the missing items is current with target,
\* and current without the redundant items, with the missing ones, is target
C25_SetDiffLaws ==
    Differenced =>
        /\ call.missing = call.next \ call.actual
        /\ call.redundant = call.actual \ call.next
        /\ call.actual \cup call.missing = call.actual \cup call.next
        /\ (call.actual \ call.redundant) \cup call.missing = call.next

\* reached: Sets that overlap, each with an item the other lacks
C25_Witness ==
    /\ call.op = "sets"
    /\ call.actual \cap call.next # {}
    /\ call.missing # {}
    /\ call.redundant # {}

-----------------------------------------------------------------------------
(* The termination signal *)

Settled(handler) == handler.state \in {"done", "rejected"}

\* the first child was signalled after the watch was unsubscribed
UnsubscribedBeforeKill ==
    \A i \in 1..Len(call.log) :
        call.log[i] = "kill" => \E j \in 1..(i - 1) : call.log[j] = "unsubscribe"

\* C26: whenever a termination signal arrives once start-up has begun, the
\* watch is unsubscribed before a child is signalled, and the handler leaves
\* no child tracked: each child spawned by then was signalled and removed
C26_SignalStopsChildren ==
    /\ UnsubscribedBeforeKill
    /\ \A h \in 1..Len(call.handlers) :
          Settled(call.handlers[h]) => call.handlers[h].left = {}

-----------------------------------------------------------------------------
(* The exit code of doctor *)

DoctorExited == call.op = "doctor" /\ call.at = "exited"

\* a check that failed and was not fixed
FailingCheckLeft ==
    \/ \E i \in 1..Len(call.reports) : Includes(call.reports[i].checks, "fail")
    \/ Includes(call.rootReport, "fail")

\* what doctor reports as an error and leaves to be fixed by hand
LeftToFixByHand ==
    \/ call.project.rootPackage # "workspaces"
    \/ call.project.workspaces = <<>>
    \/ findNameDuplicates(call.reports) # {}

\* C27: doctor exits with 0 when no check is failing or, under --fix (with
\* or without --delete), every failing check was fixed, and with 1 when a
\* failing check is left or the root manifest is missing
C27_DoctorExitCode ==
    DoctorExited =>
        Val(call.exit) = IF FailingCheckLeft \/ LeftToFixByHand THEN 1 ELSE 0

-----------------------------------------------------------------------------
(* The change of a name in the registry *)

\* the router is about to hand the update of the manifest of a registered
\* workspace to its handler, and the manifest has another name than the
\* registry
NameChangePending ==
    /\ pc = "running"
    /\ events # <<>>
    /\ watching
    /\ Head(events).type = "update"
    /\ Head(events).path \in workspacePackagesWatchlist
    /\ LET workspacePath == packagePathToWorkspacePath(Head(events).path)
       IN  /\ HasWorkspaceName(workspaceNames, workspacePath)
           /\ packages[workspacePath] # None
           /\ Val(packages[workspacePath]).name # ""
           /\ Val(packages[workspacePath]).name #
                  getWorkspaceName(workspaceNames, workspacePath)

ChangedPath == packagePathToWorkspacePath(Head(events).path)
NameBefore == getWorkspaceName(workspaceNames, ChangedPath)
NameAfter == Val(packages[ChangedPath]).name

\* the registry, as it was when the propagation of the rename was called,
\* had the new name for the path and the list of the old name under the new
SwappedBeforePropagation ==
    /\ last'.swapped # <<>>
    /\ HasWorkspaceDependencies(workspaceDependencies, NameBefore)
    /\ getWorkspaceName(last'.swapped[1], ChangedPath) = NameAfter
    /\ HasWorkspaceDependencies(last'.swapped[2], NameAfter)
    /\ getWorkspaceDependencies(last'.swapped[2], NameAfter) =
           getWorkspaceDependencies(workspaceDependencies, NameBefore)
    /\ ~HasWorkspaceDependencies(last'.swapped[2], NameBefore)

\* C28: the handler of a manifest update that changes the name A of a
\* workspace to A' has, when it starts to propagate the rename, the path
\* registered under A', the dependency list that was stored under A stored
\* under A' (not the one of the manifest), and no entry for A
C28_NameSwappedBeforePropagation ==
    [][NameChangePending => SwappedBeforePropagation]_vars

-----------------------------------------------------------------------------
(* The create event of a manifest *)

\* the router is about to hand the create event of a watched manifest that
\* has a name to its handler
ManifestCreatePending ==
    /\ pc = "running"
    /\ events # <<>>
    /\ watching
    /\ Head(events).type = "create"
    /\ Head(events).path \in workspacePackagesWatchlist
    /\ packages[packagePathToWorkspacePath(Head(events).path)] # None
    /\ Val(packages[packagePathToWorkspacePath(Head(events).path)]).name # ""

CreatedPath == packagePathToWorkspacePath(Head(events).path)
CreatedManifest == Val(packages[CreatedPath])

KeysOf(field) == IF IsSome(field) THEN Range(MapKeys(Val(field))) ELSE {}

\* the keys of the two dependency fields that are names in the registry
RegisteredDependencyKeys ==
    (KeysOf(CreatedManifest.dependencies) \cup KeysOf(CreatedManifest.devDependencies))
        \cap Range(MapValues(workspaceNames))

ManifestCreateHandled ==
    /\ HasBit(workspaceRequirements'[CreatedPath], Requirement_Package)
    /\ HasBit(workspaceRequirements'[CreatedPath], Requirement_PackageName)
    /\ HasWorkspaceName(workspaceNames', CreatedPath)
    /\ getWorkspaceName(workspaceNames', CreatedPath) = CreatedManifest.name
    /\ HasWorkspaceDependencies(workspaceDependencies', CreatedManifest.name)
    /\ Range(getWorkspaceDependencies(workspaceDependencies', CreatedManifest.name)) =
           RegisteredDependencyKeys
    /\ getBuildInfoPath(CreatedPath) \in buildInfoWatchlist'

-----------------------------------------------------------------------------
(* The pause *)

\* the watcher is about to deliver an event while the engine is paused
PausedEventPending ==
    /\ pc = "running"
    /\ events # <<>>
    /\ ~watching

\* the event was dropped: no handler ran, nothing of the registry, of the
\* watchlists or of the files changed, and the engine goes on
Discarded ==
    /\ ~last'.handled
    /\ last'.wrote = {}
    /\ last'.exit = "no"
    /\ UNCHANGED <<engineVars, fileVars>>
    /\ pc' = "running"

\* C30: while the engine is paused the router drops every event of a path
\* other than the root manifest, changing nothing of the registry and the
\* watchlists, and still hands the events of the root manifest to their
\* handler
C30_PausedRouterDiscards ==
    [][PausedEventPending =>
          IF Head(events).path = rootPackagePath
          THEN last'.op = "dispatch" /\ last'.handled
          ELSE Discarded]_vars

\* reached: paused, the event of a watched workspace file has just been
\* dropped
C30_Witness ==
    /\ ~watching
    /\ pc = "running"
    /\ last.op = "dispatch"
    /\ ~last.handled
    /\ last.event.path \in (workspacePackagesWatchlist \cup buildInfoWatchlist)

-----------------------------------------------------------------------------
(* The keys of the dependency map *)

\* C31: in every reachable state each key of State.workspaceDependencies is
\* the name that State.workspaceNames has for some workspace path
C31_DependencyKeysAreRegisteredNames ==
    \A i \in 1..Len(workspaceDependencies) :
        workspaceDependencies[i][1] \in Range(MapValues(workspaceNames))

-----------------------------------------------------------------------------
(* The fatal exit of a lookup *)

\* every build info on disk is whole, so that what a handler reads parses
WellFormedOnDisk == \A p \in Paths : buildInfos[p] # None => ~Val(buildInfos[p]).torn

\* the watcher is about to deliver an event to the running engine
EventPending == pc = "running" /\ events # <<>>

\* C32: with events delivered one at a time, each handled to its end, and
\* files that parse, no handler ends the process, whether by the lookup of a
\* name, of a path or of a dependency list; not even the handler of a build
\* info event or of a manifest update for a workspace whose name an earlier
\* manifest update removed
C32_NoFatalLookup ==
    [][(EventPending /\ WellFormedOnDisk) => last'.exit # "fatal"]_vars

-----------------------------------------------------------------------------
(* The manifest after a build info was handled *)

\* the last step was the handler of a create or update event of a watched
\* build info, which decoded the file and ran to its end
BuildInfoWriteHandled ==
    /\ last.op = "dispatch"
    /\ last.handled
    /\ last.exit = "no"
    /\ last.event.type \in {"create", "update"}
    /\ last.event.path \in BuildInfoPaths
    /\ last.decoded # <<>>

HandledWorkspace == buildInfoPathToWorkspacePath(last.event.path)

\* C33: after the handler of a create or update event of the build info of
\* a workspace ran to its end, every name the build info decoded to is a key
\* of dependencies or devDependencies in the manifest the workspace has
C33_DecodedAreManifestKeys ==
    (BuildInfoWriteHandled /\ packages[HandledWorkspace] # None) =>
        \A n \in Range(last.decoded[2]) :
              \/ HasKey(Val(packages[HandledWorkspace]).dependencies, n)
              \/ HasKey(Val(packages[HandledWorkspace]).devDependencies, n)

-----------------------------------------------------------------------------
(* The stored lists after a rename *)

\* C34: after the handler of a rename A -> A' ran to its end, no dependency
\* list stored in State.workspaceDependencies contains A
C34_NoStoredListHoldsPrevName ==
    RenameHandled =>
        \A i \in 1..Len(workspaceDependencies) :
            ~Includes(workspaceDependencies[i][2], PrevName)

-----------------------------------------------------------------------------
(* The config of a workspace after overlapping handlers of its build info *)

DoneHandlers == {h \in Handlers : call.handlers[h].state = "done"}

\* every handler has been started and has come to its end, the writing of
\* the config included
ConfigRaceFinished ==
    /\ call.op = "processBuildInfoWrite"
    /\ pc = "running"
    /\ DoneHandlers # {}
    /\ \A h \in Handlers : call.handlers[h].state \in {"done", "thrown"}

\* the references the dependencies stored for the raced workspace call for
StoredReferences ==
    referencesFromWorkspaceNames(
        workspaceNames, RaceWorkspace,
        getWorkspaceDependencies(workspaceDependencies,
                                 getWorkspaceName(workspaceNames, RaceWorkspace)))

\* C35 (violated): when two overlapping handlers of the build info of one
\* workspace have both finished, the references in the workspace's config are
\* those of the dependencies stored for the workspace in the registry
C35_ConfigFollowsRegistry ==
    ConfigRaceFinished =>
        /\ tsconfigs[RaceWorkspace] # None
        /\ Range(ReferencesOf(Val(tsconfigs[RaceWorkspace]))) = Range(StoredReferences)

-----------------------------------------------------------------------------
(* The registry after the root manifest took workspaces away *)

\* the last thing that happened to the project is the handling of a delete
\* or an update of the root manifest, or a step of a handler that was
\* suspended then
RootRemovalHandled ==
    /\ pc = "running"
    /\ last.op = "dispatch"
    /\ last.event.path = rootPackagePath
    /\ last.event.type \in {"delete", "update"}

\* the workspaces with a manifest and a config, which the engine watches
\* while the root manifest lists them, that the root manifest does not list
RemovedWorkspaces ==
    {p \in Paths : /\ packages[p] # None
                   /\ tsconfigs[p] # None
                   /\ rootPackage # None => p \notin Val(rootPackage)}

NoneSuspended == \A h \in ManifestHandlers : call.manifests[h].state \notin {"reading", "read"}

\* the registry and the watchlists hold nothing of the workspace
NothingOf(p) ==
    /\ ~HasWorkspaceName(workspaceNames, p)
    /\ getWorkspacePackagePath(p) \notin workspacePackagesWatchlist
    /\ getBuildInfoPath(p) \notin buildInfoWatchlist

\* C36 (violated): when a delete of the root manifest, or an update of it
\* that removes a workspace, has been handled and every handler suspended at
\* a read at that moment has finished, the registry and the two watchlists
\* hold no name, no dependencies and no watchlist entry of the removed
\* workspaces
C36_RemovedStayRemoved ==
    (RootRemovalHandled /\ NoneSuspended) =>
        /\ \A p \in RemovedWorkspaces : NothingOf(p)
        /\ last.event.type = "delete" => workspaceDependencies = <<>>
-----------------------------------------------------------------------------
(* Two update handlers of one manifest around a change of its name *)

\* two update handlers of the manifest of one workspace both looked the same
\* previous name up before the read of either had settled, and both have
\* come to their end; the manifest they read has another name
BothReadPrevName ==
    /\ call.op = "processBuildInfoWrite"
    /\ \A h \in ManifestHandlers :
          /\ call.manifests[h].state \in {"done", "fatal", "rejection"}
          /\ ~call.manifests[h].create
          /\ call.manifests[h].path = call.manifests[1].path
          /\ call.manifests[h].prevName = call.manifests[1].prevName
          /\ call.manifests[h].snapshot # None
          /\ Val(call.manifests[h].snapshot).name
                 \notin {"", call.manifests[h].prevName}
    /\ Val(call.manifests[1].snapshot).name = Val(call.manifests[2].snapshot).name

RacedPath == packagePathToWorkspacePath(call.manifests[1].path)
RacedName == Val(call.manifests[1].snapshot).name

\* C37 (violated): when two update handlers of one manifest overlap around a
\* change of its name from A to A', both having looked A up before either read
\* settled, the process does not end in the fatal lookup of the dependencies
\* and the registry ends with path -> A' and an entry of dependencies under A'
\* and none under A
C37_RenameSurvivesOverlap ==
    BothReadPrevName =>
        /\ pc = "running"
        /\ HasWorkspaceName(workspaceNames, RacedPath)
        /\ getWorkspaceName(workspaceNames, RacedPath) = RacedName
        /\ HasWorkspaceDependencies(workspaceDependencies, RacedName)
        /\ ~HasWorkspaceDependencies(workspaceDependencies, call.manifests[1].prevName)
-----------------------------------------------------------------------------
(* The workspace a referenced file is attributed to *)

\* C38 (violated): the decoder attributes a referenced file to a workspace
\* only if the file lies inside the directory of that workspace: every name
\* in its result is the name of a watched workspace in whose directory a
\* referenced file lies (packages/ab/x.ts does not make packages/a a
\* dependency)
C38_AttributedOnlyInside ==
    Decoded =>
        \A name \in Range(call.result) :
            \E d \in Range(call.watched) :
                /\ getWorkspaceName(call.names, JoinPath(d)) = name
                /\ \E fileName \in ReferencedFileNames(call.buildInfo) :
                      LiesIn(fileName, call.workspaceDir, d)

-----------------------------------------------------------------------------
(* The alias table after a run of updateReferences *)

AfterCalls == call.op = "updateReferencesSequence" /\ call.calls > 0 /\ ~call.exited

\* the reference path of the dependency named n, from the workspace
ReferencePathOf(n) ==
    getReferencePath(getWorkspacePath(call.names, n), Some(TsWorkspace))

\* C39: from a config without references and aliases, after any run of calls
\* of updateReferences for the workspace, the registry unchanged, the keys
\* of the alias table are n and n/* for each dependency n of the latest
\* target and no other, n resolving to the reference path of the dependency
\* followed by "/" and n/* to it followed by "/*"
C39_AliasesFollowLatestTarget ==
    AfterCalls =>
        LET aliases == AliasesOf(Val(call.disk))
        IN  /\ Range(MapKeys(aliases))
                   = Range(call.deps) \cup {n \o "/*" : n \in Range(call.deps)}
            /\ NoDuplicates(MapKeys(aliases))
            /\ \A n \in Range(call.deps) :
                  /\ MapGet(aliases, n) = <<ReferencePathOf(n) \o "/">>
                  /\ MapGet(aliases, n \o "/*") = <<ReferencePathOf(n) \o "/*">>

\* reached: the third call, for a target that lost a dependency of the
\* target before it and gained another, left the aliases of the latest
\* target alone
C39_Witness ==
    /\ AfterCalls
    /\ call.calls = MaxSequence
    /\ Range(call.prev) \ Range(call.deps) # {}
    /\ Range(call.deps) \ Range(call.prev) # {}
    /\ Len(AliasesOf(Val(call.disk))) = 2 * Len(call.deps)

-----------------------------------------------------------------------------
(* The comparison of two lists *)

\* C40 (violated): areEqual, areReferencesEqual and isRootTSConfigSatisfactory
\* answer true only if the two lists hold the same set of elements, also
\* when one list holds an element twice and the other an element the first
\* lacks
C40_EqualOnlyForSameSet ==
    (call.op = "areEqual" /\ call.fn # "none" /\ call.result) =>
        Range(call.a) = Range(call.b)


====
